---- MODULE Spec2Model ----
(***************************************************************************)
(* light-fsm: the transition engine of src/main.ts (createFSM / send).     *)
(*                                                                         *)
(* One machine instance is modelled.  Its config is drawn in Init from a   *)
(* catalogue of configs (the configs of the test-suite plus configs that   *)
(* combine the features the engine supports).  Callbacks of a config are   *)
(* modelled by a name and by the list of events they send synchronously;   *)
(* predicate guards read boolean variables of the environment ("flags").   *)
(* The synchronous call stack of send is explicit, so that reentrant sends *)
(* issued by exit / transition / entry actions interleave exactly as call  *)
(* and return do.  Every observable side effect is appended to "trace",    *)
(* which covers the current outermost call (construction or send).         *)
(*                                                                         *)
(* State ids and guard names are non-empty strings: the engine tests them  *)
(* for truthiness (main.ts:191, 212, 229), so '' is not a usable id.       *)
(***************************************************************************)
EXTENDS Integers, Sequences, FiniteSets, TLC

\* ---------------------------------------------------------------- bounds
\* deepest chain of reentrant sends explored in one cascade
MaxDepth == 4
\* payloads of the events sent from outside are 0..MaxPayload
MaxPayload == 1
\* most sends that actions have deferred to a later turn and that wait
MaxTimers == 2

\* ---------------------------------------------------------- value domains
\* JavaScript's undefined / null for a state id
Undef == "undefined"

Flags == {"p", "q"}

Ev(t, n) == [type |-> t, payload |-> n]

\* lastEvent: undefined (main.ts:100)
NoEvent == Ev("undefined", 0)

Snap(v, p, d, e) == [value |-> v, prev |-> p, done |-> d, lastEvent |-> e]

\* an action callback: absent, or a function that sends the events of
\* "sends" in order (each with payload 0) and does nothing else to the machine
NoCb == [defined |-> FALSE, name |-> "", sends |-> <<>>, later |-> <<>>]

Cb(n, types) ==
    [defined |-> TRUE, name |-> n,
     sends |-> [i \in 1..Len(types) |-> Ev(types[i], 0)], later |-> <<>>]

\* an async action: it returns at its first await and sends the events of
\* "later" from a later turn (tests/main.test.ts:1685-1693)
CbLater(n, types) ==
    [defined |-> TRUE, name |-> n, sends |-> <<>>,
     later |-> [i \in 1..Len(types) |-> Ev(types[i], 0)]]

\* guard references of a transition (main.ts:28, 33)
NoGuard == [kind |-> "none", name |-> ""]

Named(n) == [kind |-> "named", name |-> n]

\* an inline GuardFn; it returns the value of flag f
Inline(f) == [kind |-> "inline", name |-> f]

\* values of the guards map (main.ts:66): a boolean, or a function returning
\* the value of a flag; GAbsent is guards[name] === undefined
GAbsent == [kind |-> "absent", val |-> FALSE, flag |-> ""]

GBool(b) == [kind |-> "bool", val |-> b, flag |-> ""]

GFn(f) == [kind |-> "fn", val |-> FALSE, flag |-> f]

\* one Target / GuardedTarget object
Entry(g, t, a) == [guard |-> g, target |-> t, action |-> a]

\* Transitions<P> (main.ts:38): undefined | state id | object | array
NoT == [form |-> "none", entries |-> <<>>]

To(t) == [form |-> "id", entries |-> <<Entry(NoGuard, t, NoCb)>>]

Obj(g, t, a) == [form |-> "object", entries |-> <<Entry(g, t, a)>>]

List(es) == [form |-> "list", entries |-> es]

EventTypes ==
    {"NEXT", "GO", "BACK", "STOP", "CLICK", "CLOSE", "RESET", "LOGIN",
     "LOGOUT", "TIMER_END", "EMERGENCY", "TOGGLE"}

GuardNames == {"isDesktopApp", "shouldGoToB", "g1", "g2", "gone"}

\* an on table: the listed transitions, undefined for every other type
On(f) == f @@ [t \in EventTypes |-> NoT]

NoOn == [t \in EventTypes |-> NoT]

Guards(f) == f @@ [g \in GuardNames |-> GAbsent]

NoGuards == [g \in GuardNames |-> GAbsent]

St(on, final, entry, exit) ==
    [on |-> on, final |-> final, entry |-> entry, exit |-> exit]

Plain(on) == St(on, FALSE, NoCb, NoCb)

Config(initial, order, states, on, guards, handler, events) ==
    [initial |-> initial, order |-> order, states |-> states, on |-> on,
     guards |-> guards, handler |-> handler, events |-> events]

\* ------------------------------------------------------ catalogue of configs
\* README.md:20-46 (the traffic light)
LightCfg ==
    Config("green", <<"green", "yellow", "red", "emergency">>,
           ("green" :> Plain(On("TIMER_END" :> To("yellow"))))
        @@ ("yellow" :> Plain(On(("TIMER_END" :> To("red"))
                              @@ ("EMERGENCY" :> To("emergency")))))
        @@ ("red" :> Plain(On("TIMER_END" :> To("green"))))
        @@ ("emergency" :> St(NoOn, TRUE, NoCb, NoCb)),
           NoOn, NoGuards, FALSE, {"TIMER_END", "EMERGENCY"})

\* tests/main.test.ts:1408-1449 (final states, global transitions, handler)
FeedbackCfg ==
    Config("prompt", <<"prompt", "thanks", "closed">>,
           ("prompt" :> Plain(On("CLICK" :> To("thanks"))))
        @@ ("thanks" :> Plain(NoOn))
        @@ ("closed" :> St(NoOn, TRUE, NoCb, NoCb)),
           On(("CLOSE" :> To("closed")) @@ ("RESET" :> To("prompt"))),
           NoGuards, TRUE, {"CLICK", "CLOSE", "RESET"})

\* tests/main.test.ts:1634-1670 (exit, transition action, entry)
OrderCfg ==
    Config("a", <<"a", "b">>,
           ("a" :> St(On("NEXT" :> Obj(NoGuard, "b", Cb("transition a -> b", <<>>))),
                      FALSE, NoCb, Cb("exit a", <<>>)))
        @@ ("b" :> St(On("NEXT" :> To("a")), FALSE, Cb("entry b", <<>>), NoCb)),
           NoOn, NoGuards, FALSE, {"NEXT"})

\* tests/guards.test.ts:4-33 (named boolean guard, fallback entry)
LoginCfg(isDesktopApp) ==
    Config("loggedOut", <<"loggedOut", "loggedIn", "loggedOutInDesktopApp">>,
           ("loggedOut" :> Plain(On("LOGIN" :> To("loggedIn"))))
        @@ ("loggedIn" :> Plain(On("LOGOUT" :> List(<<
                Entry(Named("isDesktopApp"), "loggedOutInDesktopApp", NoCb),
                Entry(NoGuard, "loggedOut", NoCb)>>))))
        @@ ("loggedOutInDesktopApp" :> St(NoOn, TRUE, NoCb, NoCb)),
           NoOn, Guards("isDesktopApp" :> GBool(isDesktopApp)), FALSE,
           {"LOGIN", "LOGOUT"})

\* tests/guards.test.ts:59-103 (named function guard, no fallback)
GuardFnCfg ==
    Config("A", <<"A", "B", "C">>,
           ("A" :> Plain(On("NEXT" :> Obj(Named("shouldGoToB"), "B", NoCb))))
        @@ ("B" :> Plain(On("NEXT" :> To("C"))))
        @@ ("C" :> Plain(On("NEXT" :> To("A")))),
           NoOn, Guards("shouldGoToB" :> GFn("p")), FALSE, {"NEXT"})

\* tests/guards.test.ts:105-137 (inline guard)
InlineCfg ==
    Config("A", <<"A", "B">>,
           ("A" :> Plain(On("NEXT" :> Obj(Inline("p"), "B", NoCb))))
        @@ ("B" :> St(NoOn, TRUE, NoCb, NoCb)),
           NoOn, NoGuards, FALSE, {"NEXT"})

\* tests/guards.test.ts:139-175 (guard on a global transition)
GlobalGuardCfg ==
    Config("prompt", <<"prompt", "thanks", "closed">>,
           ("prompt" :> Plain(On("CLICK" :> To("thanks"))))
        @@ ("thanks" :> Plain(NoOn))
        @@ ("closed" :> St(NoOn, TRUE, NoCb, NoCb)),
           On("CLOSE" :> Obj(Inline("p"), "closed", NoCb)),
           NoGuards, FALSE, {"CLICK", "CLOSE", "RESET"})

\* tests/main.test.ts:1749-1777 (self transition with exit and action)
SelfCfg ==
    Config("a", <<"a">>,
           "a" :> St(On("NEXT" :> Obj(NoGuard, "a", Cb("transition a -> a", <<>>))),
                     FALSE, NoCb, Cb("exit a", <<>>)),
           NoOn, NoGuards, FALSE, {"NEXT"})

\* tests/main.test.ts:1779-1816 (the initial entry action sends)
InitCascadeCfg ==
    Config("a", <<"a", "b">>,
           ("a" :> St(On("NEXT" :> To("b")), FALSE, Cb("entry a", <<"NEXT">>), NoCb))
        @@ ("b" :> Plain(On("NEXT" :> To("a")))),
           NoOn, NoGuards, FALSE, {"NEXT"})

\* tests/main.test.ts:1818-1849 (an entry action sends)
EntryCascadeCfg ==
    Config("a", <<"a", "b">>,
           ("a" :> Plain(On("NEXT" :> To("b"))))
        @@ ("b" :> St(On("NEXT" :> To("a")), FALSE, Cb("entry b", <<"NEXT">>), NoCb)),
           NoOn, NoGuards, FALSE, {"NEXT"})

\* tests/main.test.ts:1851-1895 (a transition action sends)
ActionCascadeCfg ==
    Config("a", <<"a", "b">>,
           ("a" :> Plain(On("NEXT" :> Obj(NoGuard, "b", Cb("transition a -> b", <<"NEXT">>)))))
        @@ ("b" :> Plain(On("NEXT" :> To("a")))),
           NoOn, NoGuards, FALSE, {"NEXT"})

\* every form of transition and of guard, per-state and global, with all
\* callbacks defined somewhere and none of them sending
RichCfg ==
    Config("a", <<"a", "b", "c", "f">>,
           ("a" :> St(On(("NEXT" :> Obj(Inline("p"), "b", Cb("a -> b", <<>>)))
                      @@ ("GO" :> List(<<Entry(Named("g1"), "b", Cb("go 1", <<>>)),
                                         Entry(Inline("q"), "c", Cb("go 2", <<>>))>>))
                      @@ ("BACK" :> To("a"))),
                      FALSE, Cb("entry a", <<>>), Cb("exit a", <<>>)))
        @@ ("b" :> St(On(("NEXT" :> List(<<Entry(Named("g2"), "b", Cb("stay", <<>>)),
                                           Entry(NoGuard, "c", Cb("b -> c", <<>>))>>))
                      @@ ("GO" :> Obj(Named("g1"), "b", Cb("never", <<>>)))
                      @@ ("STOP" :> Obj(Inline("q"), "a", Cb("b -> a", <<>>)))
                      @@ ("BACK" :> To("a"))),
                      FALSE, Cb("entry b", <<>>), NoCb))
        @@ ("c" :> St(On(("NEXT" :> Obj(NoGuard, "a", NoCb))
                      @@ ("BACK" :> List(<<>>))),
                      FALSE, NoCb, Cb("exit c", <<>>)))
        @@ ("f" :> St(On("NEXT" :> To("a")), TRUE, Cb("entry f", <<>>), Cb("exit f", <<>>))),
           On(("STOP" :> Obj(NoGuard, "f", Cb("stop", <<>>)))
           @@ ("RESET" :> To("a"))
           @@ ("BACK" :> To("f"))),
           Guards(("g1" :> GFn("p")) @@ ("g2" :> GFn("q"))), TRUE,
           {"NEXT", "GO", "BACK", "STOP", "RESET", "TOGGLE"})

\* the same machine without handleInvalidTransition
RichQuietCfg == [RichCfg EXCEPT !.handler = FALSE]

\* exit, transition and entry actions that send; cascades only move forward
\* (a, b, c, d) so that every cascade ends
CascadeCfg ==
    Config("a", <<"a", "b", "c", "d">>,
           ("a" :> St(On(("NEXT" :> Obj(NoGuard, "b", Cb("a -> b", <<>>)))
                      @@ ("GO" :> To("a"))),
                      FALSE, Cb("entry a", <<>>), Cb("exit a", <<"GO">>)))
        @@ ("b" :> St(On(("GO" :> Obj(Inline("p"), "c", Cb("b -> c", <<>>)))
                      @@ ("BACK" :> To("a"))),
                      FALSE, Cb("entry b", <<>>), Cb("exit b", <<>>)))
        @@ ("c" :> St(On(("NEXT" :> Obj(Inline("q"), "d", Cb("c -> d", <<"STOP">>)))
                      @@ ("BACK" :> To("b"))),
                      FALSE, Cb("entry c", <<"NEXT", "GO">>), Cb("exit c", <<>>)))
        @@ ("d" :> St(On("BACK" :> To("a")), TRUE, Cb("entry d", <<"BACK">>), NoCb)),
           On("STOP" :> Obj(NoGuard, "d", Cb("stop", <<>>))),
           NoGuards, TRUE, {"NEXT", "GO", "BACK", "STOP"})

\* entry actions that re-send along a cycle of changed transitions
CycleCfg ==
    Config("c", <<"c", "a", "b">>,
           ("c" :> Plain(On("NEXT" :> To("a"))))
        @@ ("a" :> St(On("NEXT" :> To("b")), FALSE, Cb("entry a", <<"NEXT">>), NoCb))
        @@ ("b" :> St(On("NEXT" :> To("a")), FALSE, Cb("entry b", <<"NEXT">>), NoCb)),
           NoOn, NoGuards, FALSE, {"NEXT"})

\* a guard name that the guards map does not define
MissingGuardCfg ==
    Config("a", <<"a", "b">>,
           ("a" :> Plain(On("NEXT" :> List(<<Entry(Inline("p"), "b", NoCb),
                                             Entry(Named("gone"), "b", NoCb)>>))))
        @@ ("b" :> Plain(On("NEXT" :> To("a")))),
           NoOn, NoGuards, TRUE, {"NEXT"})

\* tests/main.test.ts:2015-2062 (states without an incoming transition)
UnreachableCfg ==
    Config("a", <<"a", "b", "c">>,
           ("a" :> Plain(On("NEXT" :> To("a"))))
        @@ ("b" :> Plain(On("NEXT" :> To("b"))))
        @@ ("c" :> Plain(On("NEXT" :> To("c")))),
           NoOn, NoGuards, FALSE, {"NEXT"})

\* a machine whose initial state is declared final
FinalInitialCfg ==
    Config("end", <<"end">>,
           "end" :> St(On("NEXT" :> To("end")), TRUE, Cb("entry end", <<>>), NoCb),
           NoOn, NoGuards, TRUE, {"NEXT"})

\* the initial entry action sends, and the initial state has an exit
\* action and a transition action
InitExitCfg ==
    Config("a", <<"a", "b">>,
           ("a" :> St(On("NEXT" :> Obj(NoGuard, "b", Cb("a -> b", <<>>))),
                      FALSE, Cb("entry a", <<"NEXT">>), Cb("exit a", <<>>)))
        @@ ("b" :> St(On("NEXT" :> To("a")), FALSE, Cb("entry b", <<>>), NoCb)),
           NoOn, NoGuards, FALSE, {"NEXT"})

\* b and c are targets of each other only: neither can be reached from a
IslandCfg ==
    Config("a", <<"a", "b", "c">>,
           ("a" :> Plain(On("NEXT" :> To("a"))))
        @@ ("b" :> Plain(On("NEXT" :> To("c"))))
        @@ ("c" :> Plain(On("NEXT" :> To("b")))),
           NoOn, NoGuards, FALSE, {"NEXT"})

\* every non-initial state is named once, each by another form of
\* transition: bare id, guarded list entries, guarded single target, and
\* the global on table
FormsCfg ==
    Config("a", <<"a", "b", "c", "d", "e", "f">>,
           ("a" :> Plain(On(("NEXT" :> To("b"))
                         @@ ("GO" :> List(<<Entry(Named("g1"), "c", NoCb),
                                            Entry(Named("g2"), "d", NoCb)>>))
                         @@ ("BACK" :> Obj(Named("g1"), "e", NoCb)))))
        @@ ("b" :> St(NoOn, TRUE, NoCb, NoCb))
        @@ ("c" :> St(NoOn, TRUE, NoCb, NoCb))
        @@ ("d" :> St(NoOn, TRUE, NoCb, NoCb))
        @@ ("e" :> St(NoOn, TRUE, NoCb, NoCb))
        @@ ("f" :> St(NoOn, TRUE, NoCb, NoCb)),
           On("STOP" :> To("f")),
           Guards(("g1" :> GBool(FALSE)) @@ ("g2" :> GBool(FALSE))),
           FALSE, {"NEXT", "GO", "BACK", "STOP"})

\* a transition names a state that states does not declare
BadTargetCfg ==
    Config("a", <<"a", "b">>,
           ("a" :> Plain(On(("NEXT" :> To("ghost")) @@ ("GO" :> To("b")))))
        @@ ("b" :> Plain(On("GO" :> To("a")))),
           NoOn, NoGuards, TRUE, {"NEXT", "GO"})

\* initial is not a key of states
BadInitialCfg ==
    Config("ghost", <<"a", "b">>,
           ("a" :> Plain(On("NEXT" :> To("b"))))
        @@ ("b" :> Plain(On("NEXT" :> To("a")))),
           NoOn, NoGuards, TRUE, {"NEXT"})

\* tests/main.test.ts:1672-1727 (a transition action sends after a sleep)
LaterCfg ==
    Config("a", <<"a", "b">>,
           ("a" :> Plain(On("NEXT" :> Obj(NoGuard, "b",
                                          CbLater("a -> b", <<"NEXT">>)))))
        @@ ("b" :> Plain(On("NEXT" :> To("a")))),
           NoOn, NoGuards, FALSE, {"NEXT"})

\* an unreachable state in a config whose initial state has an entry action
\* that sends
UnreachableEntryCfg ==
    Config("a", <<"a", "b">>,
           ("a" :> St(On("NEXT" :> To("a")), FALSE, Cb("entry a", <<"NEXT">>), NoCb))
        @@ ("b" :> St(On("NEXT" :> To("b")), FALSE, Cb("entry b", <<>>), NoCb)),
           NoOn, NoGuards, TRUE, {"NEXT"})

\* a target named like a property that every object literal inherits from
\* Object.prototype: order holds the own keys of states, and states is what
\* the lookup states[name] yields, which for "toString" is a function
\* object, with no final, on, entry or exit property
ProtoCfg ==
    Config("a", <<"a", "b">>,
           ("a" :> St(On(("NEXT" :> Obj(NoGuard, "toString", Cb("a -> toString", <<>>)))
                      @@ ("GO" :> To("b"))),
                      FALSE, NoCb, Cb("exit a", <<>>)))
        @@ ("b" :> St(On("GO" :> Obj(Inline("p"), "a", CbLater("b -> a", <<"NEXT">>))),
                      FALSE, Cb("entry b", <<"NEXT">>), NoCb))
        @@ ("toString" :> Plain(NoOn)),
           On("RESET" :> To("a")), NoGuards, TRUE, {"NEXT", "GO", "RESET"})

Configs ==
    <<LightCfg, FeedbackCfg, OrderCfg, LoginCfg(TRUE), LoginCfg(FALSE),
      GuardFnCfg, InlineCfg, GlobalGuardCfg, SelfCfg, InitCascadeCfg,
      EntryCascadeCfg, ActionCascadeCfg, RichCfg, RichQuietCfg, CascadeCfg,
      CycleCfg, MissingGuardCfg, UnreachableCfg, FinalInitialCfg,
      InitExitCfg, IslandCfg, FormsCfg, BadTargetCfg, BadInitialCfg,
      LaterCfg, UnreachableEntryCfg>>

\* the configs whose targets name inherited properties of states
InheritedConfigs == <<ProtoCfg>>

Catalogue == Configs \o InheritedConfigs

\* ------------------------------------------------------------------ state
VARIABLES
    config,   \* index in Configs of the config given to createFSM
    nodeEnv,  \* process.env.NODE_ENV
    flags,    \* the variables read by predicate guards, during this turn
    phase,    \* "new", "constructing", "ready" (handle returned), "failed"
    store,    \* the t-state Store of the machine (main.ts:95)
    stack,    \* the frames of createFSM / send that are executing
    trace,    \* the side effects of the current outermost call, in order
    result,   \* what the last outermost call returned or threw
    prior,    \* history: the previous turn, when its send evaluated a guard
    timers,   \* the sends that actions have deferred to a later turn
    turn,     \* what began the current turn: "none", "send" or "timer"
    twin      \* a second instance made from the same config, while it waits

vars ==
    <<config, nodeEnv, flags, phase, store, stack, trace, result, prior,
      timers, turn, twin>>

Cfg == Catalogue[config]

Payloads == 0..MaxPayload

NodeEnvs == {"test", "production"}

\* ------------------------------------------------- the Store (t-state)
\* The Store is an external collaborator; its operations follow the
\* contract of spec.md section 6: batch defers every notification until the
\* outermost batch has returned and then delivers at most one.
NoStore ==
    [created |-> FALSE, state |-> Snap(Undef, Undef, FALSE, NoEvent),
     batch |-> 0, dirty |-> FALSE, subs |-> FALSE, notes |-> <<>>]

\* new Store({state}) (main.ts:95-102)
StoreNew(s) ==
    [created |-> TRUE, state |-> s, batch |-> 0, dirty |-> FALSE,
     subs |-> FALSE, notes |-> <<>>]

StoreFlush(S) ==
    [S EXCEPT !.dirty = FALSE,
              !.notes = IF S.subs THEN Append(@, S.state) ELSE @]

StoreBatchOpen(S) == [S EXCEPT !.batch = @ + 1]

StoreSetState(S, s) ==
    IF S.batch > 0
    THEN [S EXCEPT !.state = s, !.dirty = TRUE]
    ELSE StoreFlush([S EXCEPT !.state = s])

StoreBatchClose(S) ==
    IF S.batch = 1 /\ S.dirty
    THEN StoreFlush([S EXCEPT !.batch = 0])
    ELSE [S EXCEPT !.batch = @ - 1]

\* a batch left by an exception: the contract does not say whether the
\* pending notification is delivered, so both outcomes are possible
StoreBatchAbort(S, deliver) ==
    IF S.batch > 0 /\ S.dirty /\ deliver
    THEN StoreFlush([S EXCEPT !.batch = 0])
    ELSE [S EXCEPT !.batch = 0, !.dirty = FALSE]

\* ------------------------------------------------ checkUnreachableStates
\* Object.keys(states), Object.entries(states): the own keys
ownKeys(c) == {c.order[i] : i \in 1..Len(c.order)}

\* only the first entry of a transition looked at
isTargetState_FirstEntry(target, state) ==
    target.entries # <<>> /\ target.entries[1].target = state

\* main.ts:325-353
isTargetState(target, state) ==
    \E i \in 1..Len(target.entries) : target.entries[i].target = state

\* self-loops counted as incoming edges
isReachable_CountsSelf(c, state) ==
    \/ state = c.initial
    \/ \E key \in ownKeys(c) :
          \E t \in EventTypes : isTargetState(c.states[key].on[t], state)
    \/ \E t \in EventTypes : isTargetState(c.on[t], state)

\* main.ts:358-386
isReachable(c, state) ==
    \/ state = c.initial
    \/ \E key \in ownKeys(c) \ {state} :
          \E t \in EventTypes : isTargetState(c.states[key].on[t], state)
    \/ \E t \in EventTypes : isTargetState(c.on[t], state)

\* main.ts:355-391, in the order of Object.keys(states)
unreachableStates(c) == SelectSeq(c.order, LAMBDA s : ~isReachable(c, s))

\* ------------------------------------------------------ guard resolution
\* One evaluation of a guard: the guard, and "true", "false" or "absent"
GuardEval(g, res) == [guard |-> g, res |-> res]

\* a guard name that the guards map lacks taken as a guard that is false
getStateFromGuard_AbsentFalse(c, fl, guard, target) ==
    IF guard.kind = "none"
    THEN [state |-> target, threw |-> FALSE, evals |-> <<>>]
    ELSE IF guard.kind = "inline"
    THEN [state |-> IF fl[guard.name] THEN target ELSE Undef,
          threw |-> FALSE,
          evals |-> <<GuardEval(guard, IF fl[guard.name] THEN "true" ELSE "false")>>]
    ELSE LET guardResultOrFn == c.guards[guard.name]
             guardResult == IF guardResultOrFn.kind = "bool"
                            THEN guardResultOrFn.val
                            ELSE IF guardResultOrFn.kind = "fn"
                            THEN fl[guardResultOrFn.flag]
                            ELSE FALSE
         IN  [state |-> IF guardResult THEN target ELSE Undef,
              threw |-> FALSE,
              evals |-> <<GuardEval(guard, IF guardResult THEN "true" ELSE "false")>>]

\* a predicate taken to hold without being called
getStateFromGuard_NotInvoked(c, fl, guard, target) ==
    IF guard.kind = "none"
    THEN [state |-> target, threw |-> FALSE, evals |-> <<>>]
    ELSE IF guard.kind = "inline"
    THEN [state |-> target, threw |-> FALSE, evals |-> <<>>]
    ELSE LET guardResultOrFn == c.guards[guard.name]
         IN  IF guardResultOrFn.kind = "absent"
             THEN [state |-> Undef, threw |-> TRUE,
                   evals |-> <<GuardEval(guard, "absent")>>]
             ELSE IF guardResultOrFn.kind = "fn"
             THEN [state |-> target, threw |-> FALSE, evals |-> <<>>]
             ELSE [state |-> IF guardResultOrFn.val THEN target ELSE Undef,
                   threw |-> FALSE,
                   evals |-> <<GuardEval(guard, IF guardResultOrFn.val THEN "true"
                                                ELSE "false")>>]

\* a boolean guard read like a variable of the caller
getStateFromGuard_BoolRead(c, fl, guard, target) ==
    IF guard.kind = "none"
    THEN [state |-> target, threw |-> FALSE, evals |-> <<>>]
    ELSE IF guard.kind = "inline"
    THEN [state |-> IF fl[guard.name] THEN target ELSE Undef,
          threw |-> FALSE,
          evals |-> <<GuardEval(guard, IF fl[guard.name] THEN "true" ELSE "false")>>]
    ELSE LET guardResultOrFn == c.guards[guard.name]
             guardResult == IF guardResultOrFn.kind = "bool"
                            THEN fl["p"]
                            ELSE fl[guardResultOrFn.flag]
         IN  IF guardResultOrFn.kind = "absent"
             THEN [state |-> Undef, threw |-> TRUE,
                   evals |-> <<GuardEval(guard, "absent")>>]
             ELSE [state |-> IF guardResult THEN target ELSE Undef,
                   threw |-> FALSE,
                   evals |-> <<GuardEval(guard, IF guardResult THEN "true" ELSE "false")>>]

\* main.ts:115-147; state = Undef is the null result
getStateFromGuard(c, fl, guard, target) ==
    IF guard.kind = "none"
    THEN [state |-> target, threw |-> FALSE, evals |-> <<>>]
    ELSE IF guard.kind = "inline"
    THEN [state |-> IF fl[guard.name] THEN target ELSE Undef,
          threw |-> FALSE,
          evals |-> <<GuardEval(guard, IF fl[guard.name] THEN "true" ELSE "false")>>]
    ELSE LET guardResultOrFn == c.guards[guard.name]
             guardResult == IF guardResultOrFn.kind = "bool"
                            THEN guardResultOrFn.val
                            ELSE fl[guardResultOrFn.flag]
         IN  IF guardResultOrFn.kind = "absent"
             THEN [state |-> Undef, threw |-> TRUE,
                   evals |-> <<GuardEval(guard, "absent")>>]
             ELSE [state |-> IF guardResult THEN target ELSE Undef,
                   threw |-> FALSE,
                   evals |-> <<GuardEval(guard, IF guardResult THEN "true" ELSE "false")>>]

RECURSIVE getStateFromGuardsFrom(_, _, _, _)
\* main.ts:154-165, the loop from the i-th guarded target on
getStateFromGuardsFrom(c, fl, guardedTargets, i) ==
    IF i > Len(guardedTargets)
    THEN [state |-> Undef, action |-> NoCb, threw |-> FALSE, evals |-> <<>>]
    ELSE LET guardedTarget == guardedTargets[i]
             r == getStateFromGuard(c, fl, guardedTarget.guard, guardedTarget.target)
         IN  IF r.threw
             THEN [state |-> Undef, action |-> NoCb, threw |-> TRUE, evals |-> r.evals]
             ELSE IF r.state # Undef
             THEN [state |-> r.state, action |-> guardedTarget.action,
                   threw |-> FALSE, evals |-> r.evals]
             ELSE LET rest == getStateFromGuardsFrom(c, fl, guardedTargets, i + 1)
                  IN  [rest EXCEPT !.evals = r.evals \o @]

\* the loop that goes on evaluating after it has found its target
getStateFromGuards_EvaluatesAll(c, fl, guardedTargets) ==
    LET all[i \in 0..Len(guardedTargets)] ==
            IF i = 0 THEN <<>>
            ELSE all[i - 1] \o getStateFromGuard(c, fl, guardedTargets[i].guard,
                                                 guardedTargets[i].target).evals
    IN  [getStateFromGuardsFrom(c, fl, guardedTargets, 1)
            EXCEPT !.evals = all[Len(guardedTargets)]]

\* the loop started at the second guarded target
getStateFromGuards_SkipsFirst(c, fl, guardedTargets) ==
    getStateFromGuardsFrom(c, fl, guardedTargets, 2)

\* main.ts:149-166
getStateFromGuards(c, fl, guardedTargets) ==
    getStateFromGuardsFrom(c, fl, guardedTargets, 1)

\* the global table never looked up
nextTargetObj_OwnOnly(c, currentState, eventType) ==
    c.states[currentState].on[eventType]

\* the global table looked up first
nextTargetObj_GlobalFirst(c, currentState, eventType) ==
    IF c.on[eventType].form # "none"
    THEN c.on[eventType]
    ELSE c.states[currentState].on[eventType]

\* main.ts:190-191: the state's own transition || the global one
nextTargetObj(c, currentState, eventType) ==
    IF c.states[currentState].on[eventType].form # "none"
    THEN c.states[currentState].on[eventType]
    ELSE c.on[eventType]

\* main.ts:193-227: nextState, action and hasGuards of a send
resolveTarget(c, fl, currentState, eventType) ==
    LET t == nextTargetObj(c, currentState, eventType)
    IN  IF t.form = "none"
        THEN [state |-> Undef, action |-> NoCb, threw |-> FALSE,
              evals |-> <<>>, hasGuards |-> FALSE]
        ELSE IF t.form = "id"
        THEN [state |-> t.entries[1].target, action |-> NoCb, threw |-> FALSE,
              evals |-> <<>>, hasGuards |-> FALSE]
        ELSE IF t.form = "list"
        THEN LET r == getStateFromGuards(c, fl, t.entries)
             IN  [state |-> r.state, action |-> r.action, threw |-> r.threw,
                  evals |-> r.evals, hasGuards |-> TRUE]
        ELSE IF t.entries[1].guard.kind # "none"
        THEN LET r == getStateFromGuard(c, fl, t.entries[1].guard, t.entries[1].target)
             IN  [state |-> r.state, action |-> t.entries[1].action,
                  threw |-> r.threw, evals |-> r.evals, hasGuards |-> TRUE]
        ELSE [state |-> t.entries[1].target, action |-> t.entries[1].action,
              threw |-> FALSE, evals |-> <<>>, hasGuards |-> FALSE]

\* ------------------------------------------------------------- the trace
\* op: "send" (a call of send, annotated with its resolution), "guard",
\* "invalid" (handleInvalidTransition), "exit", "action", "entry", "return",
\* "throw".  id names the send the entry belongs to (the index of
\* its "send" entry; 0 for createFSM), seen is store.state at that moment.
\* by is the id of the call whose callback made the call (-1: from outside).
Ent(op, id, by, depth, st, prev, next, ev, cb, info, snap, seen) ==
    [op |-> op, id |-> id, by |-> by, depth |-> depth, st |-> st,
     prev |-> prev, next |-> next, ev |-> ev, cb |-> cb, info |-> info,
     snap |-> snap, seen |-> seen]

\* the guard evaluations of one send: the arguments of GuardFn (main.ts:126-130)
\* the guards given the prev of the snapshot
guardEnts_SnapshotPrev(evals, id, by, depth, S, prev, ev) ==
    [i \in 1..Len(evals) |->
        Ent("guard", id, by, depth, S.state.value, S.state.prev, Undef, ev,
            evals[i].guard.name, evals[i].res, S.state, S.state)]

guardEnts(evals, id, by, depth, S, prev, ev) ==
    [i \in 1..Len(evals) |->
        Ent("guard", id, by, depth, S.state.value, prev, Undef, ev,
            evals[i].guard.name, evals[i].res, S.state, S.state)]

NoResult ==
    [kind |-> "none", changed |-> FALSE,
     snapshot |-> Snap(Undef, Undef, FALSE, NoEvent), error |-> <<>>]

Returned(changed, snapshot) ==
    [kind |-> "returned", changed |-> changed, snapshot |-> snapshot,
     error |-> <<>>]

Threw(error) ==
    [kind |-> "threw", changed |-> FALSE,
     snapshot |-> Snap(Undef, Undef, FALSE, NoEvent), error |-> error]

\* a frame of send inside store.batch (main.ts:236-258), or of createFSM
\* while the initial entry action runs (main.ts:106-113)
Frame(id, by, cur, next, ev, action, pc, running, script, snap, ctor) ==
    [id |-> id, by |-> by, cur |-> cur, next |-> next, ev |-> ev, action |-> action,
     pc |-> pc, running |-> running, script |-> script, snap |-> snap,
     ctor |-> ctor]

\* the entry action run before the transition action
NextPc_EntryFirst(pc) ==
    IF pc = "exit" THEN "entry" ELSE IF pc = "entry" THEN "action" ELSE "end"

\* the entry action never run
NextPc_NoEntry(pc) ==
    IF pc = "exit" THEN "action" ELSE "end"

NextPc(pc) ==
    IF pc = "exit" THEN "action" ELSE IF pc = "action" THEN "entry" ELSE "end"

\* the entry action taken from the state that is left
CallbackAt_EntryOfCurrent(c, f) ==
    IF f.pc = "exit" THEN c.states[f.cur].exit
    ELSE IF f.pc = "action" THEN f.action
    ELSE IF f.cur \in DOMAIN c.states THEN c.states[f.cur].entry
    ELSE c.states[f.next].entry

\* the callback a frame invokes at pc (main.ts:253, 255, 257)
CallbackAt(c, f) ==
    IF f.pc = "exit" THEN c.states[f.cur].exit
    ELSE IF f.pc = "action" THEN f.action
    ELSE c.states[f.next].entry

\* prev taken from the target
nextSnapshot_PrevIsTarget(c, currentState, nextState, event) ==
    Snap(nextState, nextState, c.states[nextState].final, event)

\* value left as it was
nextSnapshot_KeepsValue(c, currentState, nextState, event) ==
    Snap(currentState, currentState, c.states[nextState].final, event)

\* lastEvent not written
nextSnapshot_NoLastEvent(c, currentState, nextState, event) ==
    Snap(nextState, currentState, c.states[nextState].final, NoEvent)

\* done taken from the state that is left
nextSnapshot_DoneOfCurrent(c, currentState, nextState, event) ==
    Snap(nextState, currentState, c.states[currentState].final, event)

\* main.ts:237-242: the snapshot written by a changed transition
nextSnapshot(c, currentState, nextState, event) ==
    Snap(nextState, currentState, c.states[nextState].final, event)

\* the final flag never looked at
isFinalState_Never(c, currentState) == FALSE

\* main.ts:174-176
isFinalState(c, currentState) == c.states[currentState].final

\* no target counted as a change
isChanged_Never(nextState, currentState) == FALSE

\* the target not compared with the current state
isChanged_AnyTarget(nextState, currentState) == nextState # Undef

\* main.ts:229
isChanged(nextState, currentState) ==
    nextState # Undef /\ nextState # currentState

\* the test on nextState inverted
reportsInvalid_WhenResolved(c, nextState, hasGuards) ==
    c.handler /\ nextState # Undef /\ ~hasGuards

\* hasGuards not looked at
reportsInvalid_IgnoresGuards(c, nextState, hasGuards) ==
    c.handler /\ nextState = Undef

\* nextState not looked at
reportsInvalid_Unguarded(c, nextState, hasGuards) ==
    c.handler /\ ~hasGuards

\* main.ts:279: the rejected send is reported to handleInvalidTransition
reportsInvalid(c, nextState, hasGuards) ==
    c.handler /\ nextState = Undef /\ ~hasGuards

\* setState called before the batch is opened
beginTransition_SetFirst(S, s) == StoreBatchOpen(StoreSetState(S, s))

\* main.ts:236-244: store.batch opens, then setState
beginTransition(S, s) == StoreSetState(StoreBatchOpen(S), s)

\* let snapshot = undefined (main.ts:231)
NoSnapshot == Snap(Undef, Undef, FALSE, NoEvent)

\* the current snapshot, whatever the call wrote
returnedSnapshot_Current(snapshot, S) == S.state

\* snapshot ?? store.state (main.ts:231, 244, 291): the snapshot captured
\* right after the call's own setState when there is one
returnedSnapshot(snapshot, S) ==
    IF snapshot # NoSnapshot THEN snapshot ELSE S.state

\* the arguments with prev and next exchanged
actionArgs_Swapped(f) == [prev |-> f.next, next |-> f.cur, event |-> f.ev]

\* actionArgs (main.ts:246-251) of the send of frame f
actionArgs(f) == [prev |-> f.cur, next |-> f.next, event |-> f.ev]

\* an exception leaves send: it unwinds every frame (no callback of the
\* model catches); thrown inside createFSM it makes construction fail
Unwind(S, tr, error, deliver) ==
    /\ store' = StoreBatchAbort(S, deliver)
    /\ stack' = <<>>
    /\ trace' = tr
    /\ result' = Threw(error)
    /\ phase' = IF phase = "constructing" THEN "failed" ELSE phase

\* send(event) (main.ts:168-293) up to its return or to the first callback.
\* S is the store and tr the trace at the call, base the stack of the
\* callers, fl the flags.
SendBody(event, fl, base, tr, S) ==
    LET c == Cfg
        depth == Len(base) + 1
        id == Len(tr) + 1
        by == IF base = <<>> THEN -1 ELSE base[Len(base)].id
        currentState == S.state.value
        isFinal == isFinalState(c, currentState)
        r == resolveTarget(c, fl, currentState, event.type)
        nextState == r.state
        changed == isChanged(nextState, currentState)
        kind == IF isFinal THEN "final"
                ELSE IF r.threw THEN "throw"
                ELSE IF changed THEN "changed"
                ELSE IF nextState # Undef THEN "self"
                ELSE IF r.hasGuards THEN "rejected"
                ELSE "none"
        call(next, cb, snap) ==
            Ent("send", id, by, depth, currentState, Undef, next, event, cb, kind,
                snap, S.state)
        guards == guardEnts(r.evals, id, by, depth, S, currentState, event)
        invalid(info) ==
            <<Ent("invalid", id, by, depth, currentState, Undef, Undef, event,
                  "", info, S.state, S.state)>>
        unchanged(ents) ==
            /\ store' = S
            /\ stack' = base
            /\ trace' = tr \o ents
                  \o <<Ent("return", id, by, depth, currentState, Undef, Undef,
                           event, "", "unchanged", returnedSnapshot(NoSnapshot, S),
                           S.state)>>
            /\ result' = IF base = <<>>
                         THEN Returned(FALSE, returnedSnapshot(NoSnapshot, S))
                         ELSE result
            /\ phase' = phase
    IN  IF isFinal
        THEN \* main.ts:176-186
             unchanged(<<call(Undef, "", S.state)>>
                       \o IF c.handler THEN invalid("final") ELSE <<>>)
        ELSE IF r.threw
        THEN \* main.ts:137-139
             \E deliver \in BOOLEAN :
                Unwind(S, tr \o <<call(Undef, "", S.state)>> \o guards
                          \o <<Ent("throw", id, by, depth, currentState, Undef, Undef,
                                   event, r.evals[Len(r.evals)].guard.name,
                                   "Guard not found", S.state, S.state)>>,
                       <<"Guard not found", r.evals[Len(r.evals)].guard.name>>,
                       deliver)
        ELSE IF ~changed
        THEN \* main.ts:266-292
             unchanged(<<call(nextState, r.action.name, S.state)>> \o guards
                       \o IF reportsInvalid(c, nextState, r.hasGuards)
                          THEN invalid("not allowed") ELSE <<>>)
        ELSE IF nextState \notin DOMAIN c.states
        THEN \* main.ts:234, 240: states[nextState] is undefined
             \E deliver \in BOOLEAN :
                Unwind(S, tr \o <<call(nextState, r.action.name, S.state)>> \o guards
                          \o <<Ent("throw", id, by, depth, currentState, Undef, nextState,
                                   event, "", "TypeError", S.state, S.state)>>,
                       <<"TypeError">>, deliver)
        ELSE \* main.ts:233-251
             LET written == nextSnapshot(c, currentState, nextState, event)
                 S1 == beginTransition(S, written)
             IN  /\ store' = S1
                 /\ stack' = Append(base,
                        Frame(id, by, currentState, nextState, event, r.action,
                              "exit", FALSE, <<>>, S1.state, FALSE))
                 /\ trace' = tr \o <<call(nextState, r.action.name, S1.state)>> \o guards
                 /\ result' = IF base = <<>> THEN NoResult ELSE result
                 /\ phase' = phase

\* ---------------------------------------------------------------- actions
\* the sends of the callback left out
syncSends_None(cb) == <<>>

\* the deferred sends also made before the callback returns
syncSends_WithLater(cb) == cb.sends \o cb.later

\* the sends that a callback makes before it returns
syncSends(cb) == cb.sends

\* the sends that a callback leaves for a later turn
laterSends(cb) == cb.later

\* history of the turn that ends when the next outermost send is called:
\* the state and the event type of its send, whether it returned
\* changed:true and whether it threw "Guard not found", kept when that
\* send evaluated a guard
NoPrior == [st |-> Undef, type |-> Undef, changed |-> FALSE, threw |-> FALSE]

PriorOf(tr, res) ==
    IF /\ tr # <<>>
       /\ tr[1].op = "send"
       /\ \E j \in DOMAIN tr : tr[j].op = "guard" /\ tr[j].id = 1
    THEN [st |-> tr[1].st, type |-> tr[1].ev.type,
          changed |-> res.kind = "returned" /\ res.changed,
          threw |-> res.kind = "threw" /\ Head(res.error) = "Guard not found"]
    ELSE NoPrior

\* what one call of createFSM owns: the store and the closures of
\* main.ts:95-305, with the bookkeeping of its calls
Instance(ph, S, st, tr, res, pr, tm, tn) ==
    [phase |-> ph, store |-> S, stack |-> st, trace |-> tr, result |-> res,
     prior |-> pr, timers |-> tm, turn |-> tn]

NewInstance == Instance("new", NoStore, <<>>, <<>>, NoResult, NoPrior, <<>>, "none")

NoInput == [kind |-> "none", event |-> NoEvent, flags |-> [f \in Flags |-> FALSE]]

\* no second instance
NoTwin ==
    [mode |-> "alone", inst |-> NewInstance, input |-> NoInput,
     had |-> NoStore.state]

Init ==
    /\ config \in 1..Len(Configs)
    /\ nodeEnv \in NodeEnvs
    /\ flags \in [Flags -> BOOLEAN]
    /\ phase = "new"
    /\ store = NoStore
    /\ stack = <<>>
    /\ trace = <<>>
    /\ result = NoResult
    /\ prior = NoPrior
    /\ timers = <<>>
    /\ turn = "none"
    /\ twin = NoTwin

\* prev initialised to the initial state
initialSnapshot_PrevInitial(c) == Snap(c.initial, c.initial, FALSE, NoEvent)

\* main.ts:96-101: the state given to new Store
initialSnapshot(c) == Snap(c.initial, Undef, FALSE, NoEvent)

\* the initial entry action never invoked
initialEntry_Skipped(c) == NoCb

\* main.ts:104-106: initialStateConfig.entry
initialEntry(c) ==
    IF c.initial \in DOMAIN c.states THEN c.states[c.initial].entry ELSE NoCb

\* the check made after the store is created and the entry action invoked
atReachabilityCheck_AfterEntry(c, S) ==
    LET N == StoreNew(initialSnapshot(c))
    IN  [store |-> N,
         trace |-> IF initialEntry(c).defined
                   THEN <<Ent("entry", 0, -1, 1, c.initial, Undef, c.initial,
                              NoEvent, initialEntry(c).name, "", N.state, N.state)>>
                   ELSE <<>>]

\* main.ts:85-86: what createFSM has done when it calls
\* checkUnreachableStates: the store of its caller's world is as it was
\* and no callback has been invoked
atReachabilityCheck(c, S) == [store |-> S, trace |-> <<>>]

\* createFSM (main.ts:71-113, 295-304) up to its return, its throw, or the
\* call of the initial entry action
Construct ==
    /\ phase = "new"
    /\ LET c == Cfg
           unreachable == unreachableStates(c)
           S == StoreNew(initialSnapshot(c))
           entry == initialEntry(c)
       IN  IF nodeEnv \in {"development", "test"} /\ unreachable # <<>>
           THEN /\ phase' = "failed"
                /\ result' = Threw(<<"Unreachable states detected">> \o unreachable)
                /\ store' = atReachabilityCheck(c, store).store
                /\ trace' = atReachabilityCheck(c, store).trace
                /\ UNCHANGED <<stack, timers>>
           ELSE IF c.initial \notin DOMAIN c.states
           THEN \* main.ts:104-106: states[initial] is undefined, reading
                \* its entry throws; the store of main.ts:95 is dropped
                /\ phase' = "failed"
                /\ result' = Threw(<<"TypeError">>)
                /\ UNCHANGED <<store, stack, trace, timers>>
           ELSE /\ store' = S
                /\ timers' = timers \o laterSends(entry)
                /\ IF entry.defined
                   THEN /\ phase' = "constructing"
                        /\ stack' = <<Frame(0, -1, Undef, c.initial, NoEvent, NoCb,
                                            "entry", TRUE, syncSends(entry),
                                            S.state, TRUE)>>
                        /\ trace' = <<Ent("entry", 0, -1, 1, c.initial, Undef, c.initial,
                                          NoEvent, entry.name, "", S.state, S.state)>>
                        /\ result' = result
                   ELSE /\ phase' = "ready"
                        /\ result' = Returned(FALSE, S.state)
                        /\ UNCHANGED <<stack, trace>>
    /\ UNCHANGED <<config, nodeEnv, prior, flags, turn>>

\* createFSM(config) called by the program
CreateFSM == Construct /\ UNCHANGED twin

\* send(event) called from outside the machine, in a turn of its own, while
\* the variables that predicate guards read have the values fl; rest is
\* what the turn leaves of the deferred sends
OuterSend(event, fl, rest, kind) ==
    /\ phase = "ready"
    /\ stack = <<>>
    /\ flags' = fl
    /\ SendBody(event, fl, <<>>, <<>>, [store EXCEPT !.notes = <<>>])
    /\ timers' = rest
    /\ prior' = PriorOf(trace, result)
    /\ turn' = kind
    /\ UNCHANGED <<config, nodeEnv>>

\* machine.send(event) called by the program; the variables that predicate
\* guards read have any value in this turn
Send ==
    /\ Len(timers) < MaxTimers
    /\ \E t \in Cfg.events, n \in Payloads, fl \in [Flags -> BOOLEAN] :
          OuterSend(Ev(t, n), fl, timers, "send")
    /\ UNCHANGED twin

\* a send that an action deferred is called, in a turn of its own
\* (tests/main.test.ts:1687-1691)
Timer ==
    /\ timers # <<>>
    /\ \E fl \in [Flags -> BOOLEAN] :
          OuterSend(Head(timers), fl, Tail(timers), "timer")
    /\ UNCHANGED twin

\* the running callback calls send with the next event of its script
NestedSend ==
    /\ stack # <<>>
    /\ LET top == stack[Len(stack)]
       IN  /\ top.running
           /\ top.script # <<>>
           /\ Len(stack) < MaxDepth
           /\ SendBody(Head(top.script), flags,
                       [stack EXCEPT ![Len(stack)].script = Tail(@)],
                       trace, store)
    /\ UNCHANGED <<config, nodeEnv, prior, flags, timers, turn, twin>>

\* send reaches exit?.(), action?.() or entry?.() (main.ts:253-257)
Invoke ==
    /\ stack # <<>>
    /\ LET top == stack[Len(stack)]
           cb == CallbackAt(Cfg, top)
       IN  /\ ~top.running
           /\ top.pc # "end"
           /\ IF cb.defined
              THEN /\ stack' = [stack EXCEPT ![Len(stack)].running = TRUE,
                                             ![Len(stack)].script = syncSends(cb)]
                   /\ trace' = Append(trace,
                         Ent(top.pc, top.id, top.by, Len(stack),
                             IF top.pc = "entry" THEN top.next ELSE top.cur,
                             actionArgs(top).prev, actionArgs(top).next,
                             actionArgs(top).event, cb.name, "",
                             store.state, store.state))
              ELSE /\ stack' = [stack EXCEPT ![Len(stack)].pc = NextPc(@)]
                   /\ trace' = trace
           /\ timers' = timers \o laterSends(cb)
    /\ UNCHANGED <<config, nodeEnv, prior, flags, phase, store, result, turn,
                   twin>>

\* the running callback returns to the send (or createFSM) that invoked it
CallbackEnd ==
    /\ stack # <<>>
    /\ LET top == stack[Len(stack)]
       IN  /\ top.running
           /\ top.script = <<>>
           /\ stack' = [stack EXCEPT ![Len(stack)].running = FALSE,
                                     ![Len(stack)].pc = NextPc(@)]
    /\ UNCHANGED <<config, nodeEnv, prior, flags, phase, store, trace, result,
                   timers, turn, twin>>

\* store.batch returns and send returns {changed, snapshot}
\* (main.ts:258, 289-292); for the frame of createFSM, the handle is returned
Return ==
    /\ stack # <<>>
    /\ LET top == stack[Len(stack)]
           base == SubSeq(stack, 1, Len(stack) - 1)
           S1 == StoreBatchClose(store)
       IN  /\ top.pc = "end"
           /\ stack' = base
           /\ IF top.ctor
              THEN /\ phase' = "ready"
                   /\ result' = Returned(FALSE, store.state)
                   /\ UNCHANGED <<store, trace>>
              ELSE /\ store' = S1
                   /\ trace' = Append(trace,
                         Ent("return", top.id, top.by, Len(stack), top.cur, top.cur,
                             top.next, top.ev, "", "changed",
                             returnedSnapshot(top.snap, S1), S1.state))
                   /\ result' = IF base = <<>>
                                THEN Returned(TRUE, returnedSnapshot(top.snap, S1))
                                ELSE result
                   /\ phase' = phase
    /\ UNCHANGED <<config, nodeEnv, prior, flags, timers, turn, twin>>

\* machine.store.subscribe(listener), called from outside in a turn of its
\* own once the handle exists
Listen ==
    /\ phase = "ready"
    /\ stack = <<>>
    /\ ~store.subs
    /\ store' = [store EXCEPT !.subs = TRUE]
    /\ trace' = <<>>
    /\ result' = NoResult
    /\ UNCHANGED <<config, nodeEnv, prior, flags, phase, stack, timers, turn>>

\* the program subscribes to the store of the handle
Subscribe == Listen /\ UNCHANGED twin

Next ==
    \/ CreateFSM
    \/ Send
    \/ NestedSend
    \/ Invoke
    \/ CallbackEnd
    \/ Return
    \/ Subscribe
    \/ Timer

Spec == Init /\ [][Next]_vars

\* the synchronous call stack runs on: a send that has been called goes on
\* to its callbacks, their sends and its return without waiting for
\* anything (main.ts:168-293 has no await and no yield)
RunToCompletion == NestedSend \/ Invoke \/ CallbackEnd \/ Return

LiveSpec == Spec /\ WF_vars(RunToCompletion)

\* machine.store.setState({value: initial}), called from outside in a
\* turn of its own: the handle gives the Store itself (main.ts:303), whose
\* setState merges the partial into the snapshot
SetStateByCaller ==
    /\ phase = "ready"
    /\ stack = <<>>
    /\ store.state.value # Cfg.initial
    /\ store' = StoreSetState([store EXCEPT !.notes = <<>>],
                              [store.state EXCEPT !.value = Cfg.initial])
    /\ trace' = <<>>
    /\ result' = NoResult
    /\ turn' = "none"
    /\ UNCHANGED <<config, nodeEnv, prior, flags, phase, stack, timers, twin>>

NextHandle == Next \/ SetStateByCaller

\* the machine with callers that also use the store of the handle to write
SpecHandle == Init /\ [][NextHandle]_vars

\* createFSM is given a config that names an inherited property as target
InitProto ==
    /\ config \in (Len(Configs) + 1)..Len(Catalogue)
    /\ nodeEnv \in NodeEnvs
    /\ flags \in [Flags -> BOOLEAN]
    /\ phase = "new"
    /\ store = NoStore
    /\ stack = <<>>
    /\ trace = <<>>
    /\ result = NoResult
    /\ prior = NoPrior
    /\ timers = <<>>
    /\ turn = "none"
    /\ twin = NoTwin

SpecProto == InitProto /\ [][Next]_vars

\* ------------------------------------------------- two instances, one config
\* a call that the program makes on a machine, with the values that the
\* guards read during the call
CallOf(kind, event, fl) == [kind |-> kind, event |-> event, flags |-> fl]

\* one store for all the instances
instanceStore_Shared(own, other) == other

\* main.ts:95: the store that an instance reads and writes is the one that
\* its own call of createFSM made (own), whatever the store of the other
\* instance holds
instanceStore(own, other) == own

\* the two instances have received the same calls so far and none is
\* executing
CanLead == twin.mode \in {"lead", "followed"} /\ stack = <<>>

\* the instance to which the program has turned may receive call i: any
\* call when both have received the same calls, else the call that the
\* other instance received last
MayReceive(i) == CanLead \/ (twin.mode = "replay" /\ twin.input = i)

Received(i) ==
    twin' = [twin EXCEPT !.mode = IF twin.mode = "replay" THEN "followed"
                                  ELSE "led",
                         !.input = i]

\* createFSM(config) for one of the two instances
PairCreate ==
    /\ MayReceive(CallOf("create", NoEvent, flags))
    /\ Construct
    /\ Received(CallOf("create", NoEvent, flags))

\* store.subscribe on one of the two instances
PairSubscribe ==
    /\ MayReceive(CallOf("subscribe", NoEvent, flags))
    /\ Listen
    /\ Received(CallOf("subscribe", NoEvent, flags))

\* send on one of the two instances, by the program or by a timer
PairSend ==
    \E kind \in {"send", "timer"}, t \in Cfg.events, n \in Payloads,
       fl \in [Flags -> BOOLEAN] :
        LET i == CallOf(kind, IF kind = "send" THEN Ev(t, n) ELSE NoEvent, fl)
        IN  /\ MayReceive(i)
            /\ IF kind = "send" THEN Len(timers) < MaxTimers ELSE timers # <<>>
            /\ OuterSend(IF kind = "send" THEN Ev(t, n) ELSE Head(timers), fl,
                         IF kind = "send" THEN timers ELSE Tail(timers), kind)
            /\ Received(i)

\* the call has returned or thrown: the program turns to the other
\* instance, which is as its last call left it; the log of a call is not
\* kept once the program has turned away
Swap ==
    /\ twin.mode = "led"
    /\ stack = <<>>
    /\ phase' = twin.inst.phase
    /\ store' = instanceStore(twin.inst.store, store)
    /\ stack' = twin.inst.stack
    /\ trace' = twin.inst.trace
    /\ result' = twin.inst.result
    /\ prior' = twin.inst.prior
    /\ timers' = twin.inst.timers
    /\ turn' = twin.inst.turn
    /\ twin' = [mode |-> "replay",
                inst |-> Instance(phase, store, stack, <<>>, result, NoPrior,
                                  timers, "none"),
                input |-> twin.input,
                had |-> twin.inst.store.state]
    /\ UNCHANGED <<config, nodeEnv, flags>>

\* the configs of which two instances are made: guards of every form,
\* actions that send, a deferred send, a guard that is missing and a
\* construction that fails
PairConfigs ==
    {i \in 1..Len(Configs) :
        Configs[i] \in {RichCfg, CascadeCfg, LaterCfg, MissingGuardCfg,
                        UnreachableEntryCfg}}

InitPair ==
    /\ config \in PairConfigs
    /\ nodeEnv \in NodeEnvs
    /\ flags \in [Flags -> BOOLEAN]
    /\ phase = "new"
    /\ store = NoStore
    /\ stack = <<>>
    /\ trace = <<>>
    /\ result = NoResult
    /\ prior = NoPrior
    /\ timers = <<>>
    /\ turn = "none"
    /\ twin = [NoTwin EXCEPT !.mode = "lead"]

NextPair ==
    \/ PairCreate
    \/ PairSubscribe
    \/ PairSend
    \/ Swap
    \/ NestedSend
    \/ Invoke
    \/ CallbackEnd
    \/ Return

\* two instances made from one config, called in lockstep
SpecPair == InitPair /\ [][NextPair]_vars

\* ------------------------------------------------ vocabulary of the claims
\* what the config says, independently of how send computes it
Holds(g) ==
    IF g.kind = "none" THEN TRUE
    ELSE IF g.kind = "inline" THEN flags[g.name]
    ELSE IF Cfg.guards[g.name].kind = "bool" THEN Cfg.guards[g.name].val
    ELSE IF Cfg.guards[g.name].kind = "fn" THEN flags[Cfg.guards[g.name].flag]
    ELSE FALSE

IsAbsent(g) == g.kind = "named" /\ Cfg.guards[g.name].kind = "absent"

\* the indices of the entries of a transition that are selected: the first
\* entry, in declared order, whose guard holds or that has no guard
Selected(t) ==
    {i \in 1..Len(t.entries) :
        /\ Holds(t.entries[i].guard)
        /\ \A j \in 1..(i - 1) : ~Holds(t.entries[j].guard)}

\* resolving t reaches a guard name that the guards map lacks
ReachesAbsent(t) ==
    \E i \in 1..Len(t.entries) :
        /\ IsAbsent(t.entries[i].guard)
        /\ \A j \in 1..(i - 1) : ~Holds(t.entries[j].guard)

\* the transition that the config declares for a state and an event type
Declared(st, type) ==
    IF Cfg.states[st].on[type].form # "none"
    THEN Cfg.states[st].on[type] ELSE Cfg.on[type]

IsCallback(e) == e.op \in {"exit", "action", "entry"}

IsSend(k) == k \in DOMAIN trace /\ trace[k].op = "send"

\* the callbacks invoked by the send whose "send" entry is trace[k]
CallbacksOf(k) == SelectSeq(trace, LAMBDA e : e.id = k /\ IsCallback(e))

Names(q) == [j \in 1..Len(q) |-> <<q[j].op, q[j].cb>>]

IsPrefix(p, q) == Len(p) <= Len(q) /\ SubSeq(q, 1, Len(p)) = p

\* the indices of the "return" entry of send k (empty while it runs)
ReturnOf(k) == {r \in DOMAIN trace : trace[r].op = "return" /\ trace[r].id = k}

HasReturned(k) == ReturnOf(k) # {}

\* send k is a send of the claims' "changed transition": in a non-final
\* state, the declared transition selects a target other than the state
ResolvesChanged(k) ==
    /\ IsSend(k)
    /\ ~Cfg.states[trace[k].st].final
    /\ LET t == Declared(trace[k].st, trace[k].ev.type)
       IN  /\ ~ReachesAbsent(t)
           /\ \E i \in Selected(t) :
                 /\ t.entries[i].target # trace[k].st
                 /\ t.entries[i].target \in DOMAIN Cfg.states

\* the target and the action of the transition that send k matches
MatchedEntry(k) ==
    LET t == Declared(trace[k].st, trace[k].ev.type)
    IN  t.entries[CHOOSE i \in Selected(t) : TRUE]

\* exit of the current state, the matched action, entry of the target:
\* those that are defined, in this order
ExpectedCallbacks(k) ==
    LET m == MatchedEntry(k)
        x == Cfg.states[trace[k].st].exit
        n == Cfg.states[m.target].entry
    IN  (IF x.defined THEN << <<"exit", x.name>> >> ELSE <<>>)
        \o (IF m.action.defined THEN << <<"action", m.action.name>> >> ELSE <<>>)
        \o (IF n.defined THEN << <<"entry", n.name>> >> ELSE <<>>)

\* the sends called from inside the callbacks of send k
NestedIn(k) == {j \in DOMAIN trace : trace[j].op = "send" /\ trace[j].by = k}

\* the entries between the call of send k and its return, guard
\* evaluations of its own resolution aside
Between(k, r) ==
    SelectSeq(SubSeq(trace, k + 1, r - 1),
              LAMBDA e : ~(e.op = "guard" /\ e.id = k))

\* ------------------------------------------------------------------ C1
\* C1: a send that resolves to a target different from the current state
\* invokes the defined ones among exit(current), the matched transition's
\* action and entry(target) exactly once each and in this order; when no
\* callback sends, nothing else is observed between the call and the return.
C1_ActionOrder ==
    \A k \in DOMAIN trace :
        ResolvesChanged(k) =>
            /\ IsPrefix(Names(CallbacksOf(k)), ExpectedCallbacks(k))
            /\ \A r \in ReturnOf(k) :
                  /\ Names(CallbacksOf(k)) = ExpectedCallbacks(k)
                  /\ NestedIn(k) = {} => Between(k, r) = CallbacksOf(k)

\* a changed send has returned after running exit, action and entry
C1_Witness ==
    \E k \in DOMAIN trace :
        /\ ResolvesChanged(k)
        /\ HasReturned(k)
        /\ Len(CallbacksOf(k)) = 3

\* ------------------------------------------------------------------ C2
\* the snapshot that a changed send k has to write
WrittenBy(k) ==
    LET m == MatchedEntry(k)
    IN  Snap(m.target, trace[k].st, Cfg.states[m.target].final, trace[k].ev)

\* the changed sends called before the j-th entry of the trace
ChangedBefore(j) == {i \in 1..(j - 1) : ResolvesChanged(i)}

Max(S) == CHOOSE x \in S : \A y \in S : y <= x

\* C2 as stated: the snapshot is written before exit runs, exit, transition
\* action and entry of the send all observe the machine in the send's
\* target, and a send called from inside them is resolved against that target.
C2_Original ==
    \A k \in DOMAIN trace :
        ResolvesChanged(k) =>
            /\ trace[k].snap = WrittenBy(k)
            /\ \A j \in DOMAIN trace :
                  (trace[j].id = k /\ IsCallback(trace[j]))
                      => trace[j].seen.value = MatchedEntry(k).target
            /\ \A j \in NestedIn(k) : trace[j].st = MatchedEntry(k).target

\* C2 (amended): a changed send writes {value: target, prev: current, done:
\* final(target), lastEvent: event} before its exit action runs; every
\* callback, and every send called from inside a callback, observes the
\* snapshot written by the most recent changed transition of the cascade so
\* far, which is the send's own snapshot unless a send nested in an earlier
\* callback has moved the machine on since.
C2_SeesLatestWritten ==
    /\ \A k \in DOMAIN trace :
          ResolvesChanged(k) => trace[k].snap = WrittenBy(k)
    /\ \A j \in DOMAIN trace :
          ((IsCallback(trace[j]) \/ IsSend(j)) /\ ChangedBefore(j) # {}) =>
              LET i == Max(ChangedBefore(j))
              IN  /\ trace[j].seen = WrittenBy(i)
                  /\ IsSend(j) => trace[j].st = MatchedEntry(i).target
                  /\ (IsCallback(trace[j]) /\ trace[j].id = i)
                        => trace[j].seen.value = trace[j].next

\* a callback of a changed send observes a state other than the send's
\* target, because a send nested in an earlier callback has moved on
C2_Witness ==
    \E k \in DOMAIN trace :
        /\ ResolvesChanged(k)
        /\ \E j \in DOMAIN trace :
              /\ trace[j].id = k
              /\ IsCallback(trace[j])
              /\ trace[j].seen.value # MatchedEntry(k).target
              /\ trace[j].seen = WrittenBy(Max(ChangedBefore(j)))

\* ------------------------------------------------------------------ C3
\* every send of the trace has returned
AllReturned == \A k \in DOMAIN trace : IsSend(k) => HasReturned(k)

\* an outermost send has returned to its caller
OuterSendReturned ==
    /\ stack = <<>>
    /\ result.kind = "returned"
    /\ IsSend(1)

\* C3: a send called from inside an action runs its whole pipeline (its
\* callbacks and the sends nested in them) and returns before the calling
\* action's send does anything more; when the outermost send returns, the
\* machine is in the state reached by the last changed transition of the
\* cascade.
C3_NestedRunsFirst ==
    /\ \A j \in DOMAIN trace :
          (IsSend(j) /\ trace[j].by >= 0) =>
              \A m \in (j + 1)..Len(trace) :
                  trace[m].id = trace[j].by =>
                      \E r \in ReturnOf(j) :
                          /\ r < m
                          /\ ResolvesChanged(j) =>
                                Names(CallbacksOf(j)) = ExpectedCallbacks(j)
                          /\ \A n \in NestedIn(j) :
                                \E rn \in ReturnOf(n) : rn < r
    /\ OuterSendReturned =>
          /\ AllReturned
          /\ store.state.value =
                IF ChangedBefore(Len(trace) + 1) = {} THEN trace[1].st
                ELSE MatchedEntry(Max(ChangedBefore(Len(trace) + 1))).target

\* an outermost send has returned after a cascade three sends deep
C3_Witness ==
    /\ OuterSendReturned
    /\ \E j \in DOMAIN trace :
          /\ IsSend(j)
          /\ trace[j].depth >= 3
          /\ ResolvesChanged(j)
          /\ store.state.value = MatchedEntry(j).target

\* ------------------------------------------------------------------ C4
\* C4: while an outermost send runs, subscribers of the store are not
\* notified; when it returns with changed:true they have been notified
\* exactly once, with the snapshot at the end of the cascade, and when it
\* returns with changed:false they have not been notified.
C4_OneNotification ==
    /\ (phase = "ready" /\ stack # <<>>) => store.notes = <<>>
    /\ OuterSendReturned =>
          store.notes = IF result.changed /\ store.subs
                        THEN <<store.state>> ELSE <<>>

\* a subscriber got its single notification for a cascade of two or more
\* changed transitions
C4_Witness ==
    /\ OuterSendReturned
    /\ result.changed
    /\ store.subs
    /\ store.notes = <<store.state>>
    /\ Cardinality(ChangedBefore(Len(trace) + 1)) >= 2

\* ------------------------------------------------------------------ C5
\* the entries of send k, guard evaluations aside
NonGuardOps(k) ==
    LET q == SelectSeq(trace, LAMBDA e : e.id = k /\ e.op # "guard")
    IN  [j \in 1..Len(q) |-> q[j].op]

GuardsOf(k) == SelectSeq(trace, LAMBDA e : e.id = k /\ e.op = "guard")

\* send k returned changed:false and the snapshot it returned, the store
\* at its return and the store now (when nothing happened since) are the
\* snapshot from before the call
Unchanged(k) ==
    \E r \in ReturnOf(k) :
        /\ trace[r].info = "unchanged"
        /\ trace[r].snap = trace[k].seen
        /\ trace[r].seen = trace[k].seen
        /\ r = Len(trace) => store.state = trace[k].seen
        /\ (r = Len(trace) /\ k = 1 /\ trace[k].by = -1)
              => result = Returned(FALSE, trace[k].seen)

\* send k is made in a non-final state and its transition selects the
\* current state as target
ResolvesSelf(k) ==
    /\ IsSend(k)
    /\ ~Cfg.states[trace[k].st].final
    /\ LET t == Declared(trace[k].st, trace[k].ev.type)
       IN  /\ ~ReachesAbsent(t)
           /\ \E i \in Selected(t) : t.entries[i].target = trace[k].st

\* C5: a send whose transition resolves to the current state returns
\* changed:false, invokes no exit, transition or entry action, and leaves
\* value, prev, done and lastEvent as they were.
C5_SelfTransition ==
    \A k \in DOMAIN trace :
        ResolvesSelf(k) =>
            /\ NonGuardOps(k) = <<"send", "return">>
            /\ Unchanged(k)

\* a self transition selected through a guard has been sent
C5_Witness ==
    \E k \in DOMAIN trace :
        /\ ResolvesSelf(k)
        /\ GuardsOf(k) # <<>>
        /\ HasReturned(k)

\* ------------------------------------------------------------------ C6
InFinal(k) == IsSend(k) /\ Cfg.states[trace[k].st].final

\* the handleInvalidTransition calls of send k: error, state and event
InvalidOf(k) ==
    LET q == SelectSeq(trace, LAMBDA e : e.id = k /\ e.op = "invalid")
    IN  [j \in 1..Len(q) |-> <<q[j].info, q[j].st, q[j].ev>>]

FinalSendsRejected ==
    \A k \in DOMAIN trace :
        InFinal(k) =>
            /\ NonGuardOps(k) = IF Cfg.handler THEN <<"send", "invalid", "return">>
                                ELSE <<"send", "return">>
            /\ GuardsOf(k) = <<>>
            /\ Cfg.handler => InvalidOf(k) = << <<"final", trace[k].st, trace[k].ev>> >>
            /\ Unchanged(k)

StaysFinal ==
    (store.created /\ Cfg.states[store.state.value].final)
        => store'.state = store.state

\* C6: every send made in a final state, outermost or nested, returns
\* changed:false, leaves the snapshot unchanged, runs no action and reports
\* "Cannot transition from final state" with {state, event} to
\* handleInvalidTransition when configured; no step of the machine changes
\* the snapshot once the current state is final.
C6_FinalRejects == [] FinalSendsRejected /\ [][StaysFinal]_vars

\* an action has sent, in a final state, an event for which that state
\* declares a transition
C6_Witness ==
    \E k \in DOMAIN trace :
        /\ InFinal(k)
        /\ trace[k].by >= 1
        /\ Cfg.states[trace[k].st].on[trace[k].ev.type].form # "none"
        /\ HasReturned(k)

\* ------------------------------------------------------------------ C7
NoTransition(k) ==
    /\ IsSend(k)
    /\ ~Cfg.states[trace[k].st].final
    /\ Cfg.states[trace[k].st].on[trace[k].ev.type].form = "none"
    /\ Cfg.on[trace[k].ev.type].form = "none"

\* C7: a send in a non-final state for an event type that neither the state
\* nor the global table declares returns changed:false without throwing,
\* leaves the snapshot unchanged, runs no action and calls
\* handleInvalidTransition, when configured, once with "Event not allowed in
\* state" and {state: current state, event: the sent event}.
C7_NoTransition ==
    \A k \in DOMAIN trace :
        NoTransition(k) =>
            /\ NonGuardOps(k) = IF Cfg.handler THEN <<"send", "invalid", "return">>
                                ELSE <<"send", "return">>
            /\ GuardsOf(k) = <<>>
            /\ Cfg.handler =>
                  InvalidOf(k) = << <<"not allowed", trace[k].st, trace[k].ev>> >>
            /\ Unchanged(k)

\* an undeclared event has been reported to handleInvalidTransition
C7_Witness ==
    \E k \in DOMAIN trace :
        /\ NoTransition(k)
        /\ Cfg.handler
        /\ Len(InvalidOf(k)) = 1
        /\ HasReturned(k)

\* ------------------------------------------------------------------ C8
\* send k was rejected without a word: changed:false, snapshot unchanged,
\* no action, no call of handleInvalidTransition
RejectedSilently(k) ==
    /\ trace[k].next = Undef
    /\ NonGuardOps(k) = <<"send", "return">>
    /\ Unchanged(k)

\* send k uses the target and the action of the entry that t selects
UsesSelected(k, t) ==
    LET e == t.entries[CHOOSE i \in Selected(t) : TRUE]
    IN  /\ trace[k].next = e.target
        /\ trace[k].cb = e.action.name
        /\ (e.target # trace[k].st /\ e.target \in DOMAIN Cfg.states) =>
              /\ trace[k].snap.value = e.target
              /\ IsPrefix(Names(CallbacksOf(k)), ExpectedCallbacks(k))
              /\ HasReturned(k) => Names(CallbacksOf(k)) = ExpectedCallbacks(k)
        /\ e.target = trace[k].st =>
              /\ NonGuardOps(k) = <<"send", "return">>
              /\ Unchanged(k)

ListSend(k) ==
    /\ IsSend(k)
    /\ ~Cfg.states[trace[k].st].final
    /\ Declared(trace[k].st, trace[k].ev.type).form = "list"
    /\ ~ReachesAbsent(Declared(trace[k].st, trace[k].ev.type))

\* C8: for a transition given as a list of guarded entries, send uses the
\* target and the action of the first entry, in declared order, whose guard
\* evaluates true or that has no guard; when no entry is selected it
\* returns changed:false, leaves the snapshot unchanged, runs no action and
\* does not call handleInvalidTransition.
C8_GuardedList ==
    \A k \in DOMAIN trace :
        ListSend(k) =>
            LET t == Declared(trace[k].st, trace[k].ev.type)
            IN  IF Selected(t) = {} THEN RejectedSilently(k)
                ELSE UsesSelected(k, t)

\* the first guard of a list was false, the second entry was selected, and
\* its action has run
C8_Witness ==
    \E k \in DOMAIN trace :
        /\ ListSend(k)
        /\ Selected(Declared(trace[k].st, trace[k].ev.type)) = {2}
        /\ Len(GuardsOf(k)) = 2
        /\ HasReturned(k)
        /\ \E j \in DOMAIN trace :
              /\ trace[j].id = k
              /\ trace[j].op = "action"
              /\ trace[j].cb = MatchedEntry(k).action.name

\* ------------------------------------------------------------------ C9
SingleGuarded(k) ==
    /\ IsSend(k)
    /\ ~Cfg.states[trace[k].st].final
    /\ LET t == Declared(trace[k].st, trace[k].ev.type)
       IN  /\ t.form = "object"
           /\ t.entries[1].guard.kind # "none"
           /\ ~ReachesAbsent(t)

\* C9: for a single-target transition with a guard, send moves to the target
\* and runs the transition's action only when the guard evaluates true; when
\* it evaluates false send returns changed:false, the snapshot is unchanged,
\* no exit, transition or entry action runs and handleInvalidTransition is
\* not called.
C9_SingleGuard ==
    \A k \in DOMAIN trace :
        SingleGuarded(k) =>
            LET t == Declared(trace[k].st, trace[k].ev.type)
            IN  /\ Len(GuardsOf(k)) = 1
                /\ IF Holds(t.entries[1].guard) THEN UsesSelected(k, t)
                   ELSE RejectedSilently(k)

\* a machine with handleInvalidTransition had a single-target send rejected
\* by its guard
C9_Witness ==
    \E k \in DOMAIN trace :
        /\ SingleGuarded(k)
        /\ ~Holds(Declared(trace[k].st, trace[k].ev.type).entries[1].guard)
        /\ Cfg.handler
        /\ HasReturned(k)

\* ------------------------------------------------------------------ C10
\* the names of the guards of a transition
GuardsIn(t) == {t.entries[i].guard.name : i \in 1..Len(t.entries)}

\* send k behaves as the resolution of transition t prescribes
ResolvedBy(k, t) ==
    /\ \A j \in 1..Len(GuardsOf(k)) : GuardsOf(k)[j].cb \in GuardsIn(t)
    /\ IF t.form = "none" THEN trace[k].next = Undef /\ Unchanged(k)
       ELSE IF ReachesAbsent(t) THEN NonGuardOps(k) = <<"send", "throw">>
       ELSE IF Selected(t) = {} THEN RejectedSilently(k)
       ELSE UsesSelected(k, t)

\* C10: in a non-final state send uses the state's own transition for the
\* event type whenever the state declares one, and the global transition
\* for that type only when it declares none; when the own transition is
\* rejected by its guards the global one is not tried.
C10_OwnBeforeGlobal ==
    \A k \in DOMAIN trace :
        (IsSend(k) /\ ~Cfg.states[trace[k].st].final) =>
            LET own == Cfg.states[trace[k].st].on[trace[k].ev.type]
                global == Cfg.on[trace[k].ev.type]
            IN  IF own.form # "none" THEN ResolvedBy(k, own)
                ELSE ResolvedBy(k, global)

\* the state's own transition was rejected by its guards although the
\* global transition for the same event would have matched
C10_Witness ==
    \E k \in DOMAIN trace :
        /\ IsSend(k)
        /\ ~Cfg.states[trace[k].st].final
        /\ Cfg.states[trace[k].st].on[trace[k].ev.type].form = "object"
        /\ Selected(Cfg.states[trace[k].st].on[trace[k].ev.type]) = {}
        /\ Selected(Cfg.on[trace[k].ev.type]) # {}
        /\ RejectedSilently(k)

\* ------------------------------------------------------------------ C11
\* send k, in a non-final state that does not declare the event type
\* itself, is resolved through the global table
ThroughGlobal(k) ==
    /\ IsSend(k)
    /\ ~Cfg.states[trace[k].st].final
    /\ Cfg.states[trace[k].st].on[trace[k].ev.type].form = "none"
    /\ Cfg.on[trace[k].ev.type].form # "none"
    /\ ~ReachesAbsent(Cfg.on[trace[k].ev.type])

\* C11: a changed transition resolved through the global on table behaves
\* as one resolved through a per-state table: the snapshot is updated and
\* exit(current), the global transition's action and entry(target) run in
\* this order; a guard of a global single-target transition is evaluated
\* on every such send.
C11_GlobalLikeOwn ==
    \A k \in DOMAIN trace :
        ThroughGlobal(k) =>
            LET t == Cfg.on[trace[k].ev.type]
            IN  /\ (t.form = "object" /\ t.entries[1].guard.kind # "none")
                      => Len(GuardsOf(k)) = 1
                /\ \A i \in Selected(t) :
                      t.entries[i].target # trace[k].st =>
                          /\ trace[k].snap =
                                Snap(t.entries[i].target, trace[k].st,
                                     Cfg.states[t.entries[i].target].final,
                                     trace[k].ev)
                          /\ trace[k].cb = t.entries[i].action.name
                          /\ IsPrefix(Names(CallbacksOf(k)), ExpectedCallbacks(k))
                          /\ HasReturned(k) =>
                                Names(CallbacksOf(k)) = ExpectedCallbacks(k)
                /\ Selected(t) = {} => RejectedSilently(k)

\* a global transition has run exit, its action and entry
C11_Witness ==
    \E k \in DOMAIN trace :
        /\ ThroughGlobal(k)
        /\ HasReturned(k)
        /\ Len(CallbacksOf(k)) = 3
        /\ CallbacksOf(k)[2].cb =
              Cfg.on[trace[k].ev.type].entries[1].action.name

\* ------------------------------------------------------------------ C12
\* C12: in every state of the machine, from construction on, snapshot.done
\* is true exactly when the state named by snapshot.value is declared final.
C12_DoneMirrorsFinal ==
    store.created => store.state.done = Cfg.states[store.state.value].final

\* ------------------------------------------------------------------ C13
\* createFSM has returned the handle and nothing has been called on it yet
JustConstructed ==
    /\ phase = "ready"
    /\ stack = <<>>
    /\ result.kind = "returned"
    /\ ~IsSend(1)

InitialEntrySends ==
    Cfg.states[Cfg.initial].entry.defined
        /\ Cfg.states[Cfg.initial].entry.sends # <<>>

\* C13: right after createFSM returns, when the initial entry action sends
\* no event, the snapshot is {value: initial, prev: undefined, done: false,
\* lastEvent: undefined}.
C13_InitialSnapshot ==
    (JustConstructed /\ ~InitialEntrySends) =>
        /\ store.state = Snap(Cfg.initial, Undef, FALSE, NoEvent)
        /\ result.snapshot = store.state

\* a machine whose initial state has an entry action has been constructed
C13_Witness ==
    /\ JustConstructed
    /\ ~InitialEntrySends
    /\ Cfg.states[Cfg.initial].entry.defined
    /\ Len(trace) = 1

\* ------------------------------------------------------------------ C14
\* createFSM is running or has just returned
AtConstruction == phase = "constructing" \/ JustConstructed

\* the callbacks that createFSM itself invokes
OwnCallbacks == SelectSeq(trace, LAMBDA e : e.id = 0)

\* the invocation of the initial entry action that createFSM has to make
InitialEntryCall ==
    Ent("entry", 0, -1, 1, Cfg.initial, Undef, Cfg.initial, NoEvent,
        Cfg.states[Cfg.initial].entry.name, "",
        Snap(Cfg.initial, Undef, FALSE, NoEvent),
        Snap(Cfg.initial, Undef, FALSE, NoEvent))

EntryInvokedOnce ==
    IF Cfg.states[Cfg.initial].entry.defined
    THEN /\ OwnCallbacks = <<InitialEntryCall>>
         /\ trace[1] = InitialEntryCall
    ELSE trace = <<>>

\* C14 as stated: createFSM invokes the initial entry action once, first,
\* with next = initial, prev = undefined, event = undefined, and no exit or
\* transition action runs at construction.
C14_Original ==
    AtConstruction =>
        /\ EntryInvokedOnce
        /\ \A j \in DOMAIN trace : trace[j].op \notin {"exit", "action"}

\* C14 (amended): createFSM invokes the initial entry action, when defined,
\* exactly once, before it returns and before anything else happens to the
\* machine, with next = initial, prev = undefined, event = undefined;
\* createFSM itself invokes no exit or transition action, and none runs at
\* construction unless a send issued by the initial entry action runs it.
C14_InitialEntry ==
    AtConstruction =>
        /\ EntryInvokedOnce
        /\ \A j \in DOMAIN trace :
              trace[j].op \in {"exit", "action"} =>
                  /\ trace[j].id > 0
                  /\ IsSend(trace[j].id)
                  /\ InitialEntrySends
        /\ ~InitialEntrySends => Len(trace) <= 1

\* at construction, a send issued by the initial entry action has run the
\* exit action of the initial state
C14_Witness ==
    /\ JustConstructed
    /\ EntryInvokedOnce
    /\ \E j \in DOMAIN trace :
          /\ trace[j].op = "exit"
          /\ trace[j].st = Cfg.initial
          /\ trace[trace[j].id].by = 0

\* ------------------------------------------------------------------ C15
\* the state in which the cascade logged in the trace ends, starting in s
CascadeEnd(s) ==
    IF ChangedBefore(Len(trace) + 1) = {} THEN s
    ELSE MatchedEntry(Max(ChangedBefore(Len(trace) + 1))).target

\* a subscriber has been attached and nothing has been sent since
JustSubscribed == store.subs /\ trace = <<>> /\ result = NoResult

\* C15: every send issued inside the initial entry action has returned when
\* createFSM returns, and the machine is then in the state at the end of
\* that cascade; no notification of the cascade is pending, and a
\* subscriber attached afterwards is not notified of it.
C15_InitialCascade ==
    /\ JustConstructed =>
          /\ AllReturned
          /\ store.state.value = CascadeEnd(Cfg.initial)
          /\ store.batch = 0
          /\ ~store.dirty
          /\ store.notes = <<>>
    /\ JustSubscribed => store.notes = <<>>

\* createFSM has returned a machine that its initial entry action has moved
\* out of the initial state
C15_Witness ==
    /\ JustConstructed
    /\ InitialEntrySends
    /\ ChangedBefore(Len(trace) + 1) # {}
    /\ store.state.value # Cfg.initial

\* ------------------------------------------------------------------ C16
\* the step modifies the snapshot of the machine
ModifiesSnapshot == store.created /\ store'.state # store.state

\* the step is the call of a send k which resolves to a target other than
\* the state before the step, and after it the four fields are the ones
\* of that transition
WritesAllFour ==
    \E k \in DOMAIN trace' :
        /\ (IsSend(k))'
        /\ \A j \in DOMAIN trace' : (IsSend(j))' => j <= k
        /\ k \in DOMAIN trace => stack = <<>>
        /\ trace'[k].st = store.state.value
        /\ (ResolvesChanged(k))'
        /\ store'.state.value = (MatchedEntry(k))'.target
        /\ store'.state.prev = store.state.value
        /\ store'.state.done = Cfg.states[(MatchedEntry(k))'.target].final
        /\ store'.state.lastEvent = trace'[k].ev

\* every send that has returned changed:false found at its return the
\* snapshot that it found at its call
UnchangedLeaves ==
    \A k \in DOMAIN trace :
        \A r \in ReturnOf(k) :
            trace[r].info = "unchanged" => trace[r].seen = trace[k].seen

SnapshotFrame == ModifiesSnapshot => WritesAllFour

\* C16: a step of send that modifies a field of the snapshot is a changed
\* transition and writes value = target, prev = the value before the step,
\* done = final(target) and lastEvent = the event sent; a send that returns
\* changed:false leaves the four fields as they were.
C16_SnapshotFrame == [] UnchangedLeaves /\ [][SnapshotFrame]_vars

\* a changed send has written the snapshot, a send nested in it has
\* returned changed:false, and the snapshot is still the written one
C16_Witness ==
    \E k, j \in DOMAIN trace :
        /\ ResolvesChanged(k)
        /\ j > k
        /\ IsSend(j)
        /\ \E r \in ReturnOf(j) : trace[r].info = "unchanged"
        /\ store.state = WrittenBy(k)
        /\ store.state.lastEvent.payload > 0

\* ------------------------------------------------------------------ C17
\* the result of the outermost send of the turn, once it has returned
OuterResult(k, r) ==
    (k = 1 /\ trace[k].by = -1 /\ r = Len(trace)) =>
        result = Returned(trace[r].info = "changed", trace[r].snap)

\* C17: send returns changed:true exactly when its own resolved target
\* exists and differs from the state at the call; the snapshot returned is
\* then the one its own transition wrote, whatever nested sends have done
\* since; with changed:false it is the snapshot current at the return.
C17_ReturnValue ==
    \A k \in DOMAIN trace :
        IsSend(k) =>
            \A r \in ReturnOf(k) :
                /\ trace[k].st = trace[k].seen.value
                /\ (trace[r].info = "changed") <=> ResolvesChanged(k)
                /\ ResolvesChanged(k) => trace[r].snap = WrittenBy(k)
                /\ ~ResolvesChanged(k) => trace[r].snap = trace[r].seen
                /\ OuterResult(k, r)

\* an outermost send has returned changed:true with its own snapshot while
\* sends nested in it have moved the machine to another state
C17_Witness ==
    /\ stack = <<>>
    /\ result.kind = "returned"
    /\ IsSend(1)
    /\ trace[1].by = -1
    /\ ResolvesChanged(1)
    /\ result.changed
    /\ result.snapshot = WrittenBy(1)
    /\ store.state.value # result.snapshot.value

\* ------------------------------------------------------------------ C18
\* the callbacks that sends have invoked (the entry call of createFSM has id 0)
SendCallbacks == {j \in DOMAIN trace : IsCallback(trace[j]) /\ trace[j].id > 0}

\* C18: in a changed transition current -> target caused by event e, exit
\* of current, the transition action and entry of target are each called
\* with prev = current, next = target and event = e, payload included.
C18_CallbackArgs ==
    \A j \in SendCallbacks :
        LET k == trace[j].id
        IN  /\ ResolvesChanged(k)
            /\ trace[j].prev = trace[k].st
            /\ trace[j].next = MatchedEntry(k).target
            /\ trace[j].ev = trace[k].ev
            /\ trace[j].st = IF trace[j].op = "entry" THEN trace[j].next
                             ELSE trace[j].prev

\* a send with a payload has run exit, action and entry
C18_Witness ==
    \E k \in DOMAIN trace :
        /\ ResolvesChanged(k)
        /\ HasReturned(k)
        /\ trace[k].ev.payload > 0
        /\ {trace[j].op : j \in {i \in SendCallbacks : trace[i].id = k}}
              = {"exit", "action", "entry"}

\* ------------------------------------------------------------------ C19
\* the j-th entry of the trace is an evaluation of a named guard that the
\* config defines as a boolean
BoolGuardEval(j) ==
    /\ trace[j].op = "guard"
    /\ trace[j].cb \in GuardNames
    /\ Cfg.guards[trace[j].cb].kind = "bool"

\* LOGOUT sent in loggedIn
IsLogout(k) ==
    IsSend(k) /\ trace[k].st = "loggedIn" /\ trace[k].ev.type = "LOGOUT"

\* C19: a named guard configured with a boolean yields that value at every
\* evaluation; with isDesktopApp = true every LOGOUT sent in loggedIn goes
\* to loggedOutInDesktopApp, with isDesktopApp = false to loggedOut.
C19_BooleanGuard ==
    /\ \A j \in DOMAIN trace :
          BoolGuardEval(j) =>
              trace[j].info = IF Cfg.guards[trace[j].cb].val THEN "true"
                              ELSE "false"
    /\ \A b \in BOOLEAN :
          Cfg = LoginCfg(b) =>
              \A k \in DOMAIN trace :
                  IsLogout(k) =>
                      /\ trace[k].snap.value = IF b THEN "loggedOutInDesktopApp"
                                               ELSE "loggedOut"
                      /\ \A r \in ReturnOf(k) :
                            /\ trace[r].info = "changed"
                            /\ trace[r].seen.value = trace[k].snap.value

\* with isDesktopApp = false a LOGOUT has gone to loggedOut, in a turn in
\* which every variable that predicates read is true
C19_Witness ==
    /\ Cfg = LoginCfg(FALSE)
    /\ IsLogout(1)
    /\ HasReturned(1)
    /\ store.state.value = "loggedOut"
    /\ store.state.prev = "loggedIn"
    /\ \A f \in Flags : flags[f]

\* ------------------------------------------------------------------ C20
\* g is a predicate: an inline function, or a name that the config maps to
\* a function
IsPredicate(g) ==
    \/ g.kind = "inline"
    \/ g.kind = "named" /\ Cfg.guards[g.name].kind = "fn"

\* the entries of t whose predicate guard the resolution reaches: every
\* entry before them has a guard that does not hold
Reached(t) ==
    {i \in 1..Len(t.entries) :
        /\ IsPredicate(t.entries[i].guard)
        /\ \A j \in 1..(i - 1) : ~Holds(t.entries[j].guard)}

\* the evaluations of predicates made by send k
PredicateEvalsOf(k) ==
    SelectSeq(GuardsOf(k),
              LAMBDA e : e.cb \in Flags
                         \/ (e.cb \in GuardNames /\ Cfg.guards[e.cb].kind = "fn"))

\* send k is made in a non-final state and its resolution reaches a predicate
ReachesPredicate(k) ==
    /\ IsSend(k)
    /\ ~Cfg.states[trace[k].st].final
    /\ ~ReachesAbsent(Declared(trace[k].st, trace[k].ev.type))
    /\ Reached(Declared(trace[k].st, trace[k].ev.type)) # {}

\* C20: a predicate guard is invoked on every send whose resolution reaches
\* it, once, and the outcome of the send is the one that the values
\* returned at these invocations select; so the same event in the same
\* state is rejected by one send and accepted by a later one once the
\* predicate's value has changed.
C20_PredicateGuard ==
    \A k \in DOMAIN trace :
        ReachesPredicate(k) =>
            LET t == Declared(trace[k].st, trace[k].ev.type)
                evals == PredicateEvalsOf(k)
            IN  /\ Len(evals) = Cardinality(Reached(t))
                /\ \A i \in Reached(t) :
                      \E j \in 1..Len(evals) :
                          /\ evals[j].cb = t.entries[i].guard.name
                          /\ evals[j].info = IF Holds(t.entries[i].guard)
                                             THEN "true" ELSE "false"
                /\ IF Selected(t) = {} THEN RejectedSilently(k)
                   ELSE UsesSelected(k, t)

\* the previous send of this event in this state was rejected by a
\* predicate, and this one has been accepted
C20_Witness ==
    /\ prior # NoPrior
    /\ ~prior.changed
    /\ ~prior.threw
    /\ stack = <<>>
    /\ ReachesPredicate(1)
    /\ trace[1].by = -1
    /\ trace[1].st = prior.st
    /\ trace[1].ev.type = prior.type
    /\ IsPredicate(Declared(prior.st, prior.type).entries[1].guard)
    /\ result.kind = "returned"
    /\ result.changed
    /\ store.state.value # prior.st

\* ------------------------------------------------------------------ C21
\* the states that a transition names as targets, guards ignored
Targets(t) == {t.entries[i].target : i \in 1..Len(t.entries)}

\* the states that one declared transition leads to from state s: through
\* the on table of s or through the global on table
Edges(s) ==
    UNION {Targets(Cfg.states[s].on[e]) \cup Targets(Cfg.on[e]) : e \in EventTypes}

RECURSIVE ReachIn(_, _)
\* the states reached from those of S by at most n transitions
ReachIn(S, n) ==
    IF n = 0 THEN S
    ELSE ReachIn(S \cup UNION {Edges(s) : s \in S \cap DOMAIN Cfg.states}, n - 1)

\* the declared states that cannot be reached from initial
Unreached ==
    DOMAIN Cfg.states
        \ ReachIn({Cfg.initial}, Cardinality(DOMAIN Cfg.states))

CheckEnabled == nodeEnv \in {"development", "test"}

\* createFSM has thrown the error of the reachability check
ThrewUnreachable ==
    /\ phase = "failed"
    /\ result.kind = "threw"
    /\ Head(result.error) = "Unreachable states detected"

\* the states that the error names
NamedInError == {result.error[i] : i \in 2..Len(result.error)}

\* C21: with the reachability check enabled, createFSM throws whenever a
\* declared state cannot be reached from initial by following declared
\* transitions, and the error names every such state.
C21_Reachability ==
    (CheckEnabled /\ phase # "new" /\ Unreached # {}) =>
        /\ ThrewUnreachable
        /\ Unreached \subseteq NamedInError

\* ------------------------------------------------------------------ C22
\* s is not initial and no transition of another state and no global
\* transition names s: its incoming transitions, if any, are self-loops
OnlySelfLoops(s) ==
    /\ s # Cfg.initial
    /\ \A o \in DOMAIN Cfg.states \ {s} :
          \A e \in EventTypes : s \notin Targets(Cfg.states[o].on[e])
    /\ \A e \in EventTypes : s \notin Targets(Cfg.on[e])

NamesAs(t, form, s) == t.form = form /\ s \in Targets(t)

\* some transition of another state, in any of the three forms, or some
\* global transition names s
HasEdge(s) ==
    \/ \E o \in DOMAIN Cfg.states \ {s} :
          \E e \in EventTypes :
              \E form \in {"id", "object", "list"} :
                  NamesAs(Cfg.states[o].on[e], form, s)
    \/ \E e \in EventTypes : s \in Targets(Cfg.on[e])

\* s is named by the global on table and by no state
GlobalOnly(s) ==
    /\ \E e \in EventTypes : s \in Targets(Cfg.on[e])
    /\ \A o \in DOMAIN Cfg.states :
          \A e \in EventTypes : s \notin Targets(Cfg.states[o].on[e])

\* s is named by a guarded entry whose guard is false, and by nothing else
FalseGuardOnly(s) ==
    \E o \in DOMAIN Cfg.states \ {s} :
        \E e \in EventTypes :
            LET t == Cfg.states[o].on[e]
            IN  /\ \E i \in 1..Len(t.entries) :
                      /\ t.entries[i].target = s
                      /\ t.entries[i].guard.kind = "named"
                      /\ Cfg.guards[t.entries[i].guard.name] = GBool(FALSE)
                /\ \A o2 \in DOMAIN Cfg.states :
                      \A e2 \in EventTypes :
                          s \in Targets(Cfg.states[o2].on[e2]) => o2 = o /\ e2 = e
                /\ \A e2 \in EventTypes : s \notin Targets(Cfg.on[e2])

\* C23: the reachability check counts as an edge every target named in a
\* transition, whatever its form and whatever its guards evaluate to, and
\* every target of the global on table: a state named in this way is not
\* reported, and when every non-initial state is, createFSM does not throw.
C23_EveryFormIsEdge ==
    (CheckEnabled /\ phase # "new") =>
        /\ \A s \in DOMAIN Cfg.states :
              HasEdge(s) => ~(ThrewUnreachable /\ s \in NamedInError)
        /\ (\A s \in DOMAIN Cfg.states \ {Cfg.initial} : HasEdge(s))
              => ~ThrewUnreachable

\* createFSM has returned a handle for a config with a state named only by
\* the global table, a state named only in the second entry of a list
\* behind a false guard, and a state named only by a single target behind
\* a false guard
C23_Witness ==
    /\ CheckEnabled
    /\ phase = "ready"
    /\ \E s \in DOMAIN Cfg.states : GlobalOnly(s)
    /\ \E s \in DOMAIN Cfg.states :
          /\ FalseGuardOnly(s)
          /\ \E e \in EventTypes :
                /\ NamesAs(Cfg.states[Cfg.initial].on[e], "list", s)
                /\ Cfg.states[Cfg.initial].on[e].entries[1].target # s
    /\ \E s \in DOMAIN Cfg.states :
          /\ FalseGuardOnly(s)
          /\ \E e \in EventTypes : NamesAs(Cfg.states[Cfg.initial].on[e], "object", s)

\* ------------------------------------------------------------------ C24
\* the states that the transitions of the config name
AllTargets ==
    UNION {Targets(Cfg.on[e]) : e \in EventTypes}
        \cup UNION {Targets(Cfg.states[s].on[e]) :
                      s \in DOMAIN Cfg.states, e \in EventTypes}

\* initial or some target is not a key of states
IllFormed ==
    \/ Cfg.initial \notin DOMAIN Cfg.states
    \/ ~(AllTargets \subseteq DOMAIN Cfg.states)

\* C24: createFSM fails at construction when initial is not a key of
\* states or when a transition names a target that is not a key of states:
\* no handle is returned for such a config.
C24_FailsFast == (IllFormed /\ phase # "new") => phase = "failed"

\* ------------------------------------------------------------------ C25
\* the guard name, absent from the guards map, that resolving t reaches
AbsentReached(t) ==
    LET i == CHOOSE i \in 1..Len(t.entries) :
                /\ IsAbsent(t.entries[i].guard)
                /\ \A j \in 1..(i - 1) : ~Holds(t.entries[j].guard)
    IN  t.entries[i].guard.name

\* send k is made in a non-final state and its resolution reaches a guard
\* name that the guards map lacks
ResolvesAbsent(k) ==
    /\ IsSend(k)
    /\ ~Cfg.states[trace[k].st].final
    /\ ReachesAbsent(Declared(trace[k].st, trace[k].ev.type))

\* the entries of the trace in which send k throws "Guard not found"
GuardThrowOf(k) ==
    {j \in DOMAIN trace : /\ trace[j].op = "throw"
                          /\ trace[j].id = k
                          /\ trace[j].info = "Guard not found"}

\* C25: a send whose guard resolution reaches a guard name absent from the
\* guards map throws "Guard '<name>' not found" at once: it does not call
\* handleInvalidTransition, runs no action and leaves the snapshot as it
\* was; in a list it throws only when no earlier entry was selected.
C25_GuardNotFound ==
    \A k \in DOMAIN trace :
        /\ ResolvesAbsent(k) =>
              LET name == AbsentReached(Declared(trace[k].st, trace[k].ev.type))
              IN  /\ NonGuardOps(k) = <<"send", "throw">>
                  /\ trace[Len(trace)].op = "throw"
                  /\ trace[Len(trace)].id = k
                  /\ trace[Len(trace)].cb = name
                  /\ GuardThrowOf(k) = {Len(trace)}
                  /\ result = Threw(<<"Guard not found", name>>)
                  /\ stack = <<>>
                  /\ store.state = trace[k].seen
        /\ (IsSend(k) /\ GuardThrowOf(k) # {}) => ResolvesAbsent(k)

\* a machine with handleInvalidTransition: a send has thrown for the
\* second entry of a list after the guard of the first evaluated false
C25_Witness ==
    \E k \in DOMAIN trace :
        /\ ResolvesAbsent(k)
        /\ Cfg.handler
        /\ Declared(trace[k].st, trace[k].ev.type).form = "list"
        /\ Len(GuardsOf(k)) = 2
        /\ GuardsOf(k)[1].info = "false"
        /\ result.kind = "threw"

\* ------------------------------------------------------------------ C26
\* the send before the current one threw "Guard not found"
AfterGuardError == prior.threw /\ IsSend(1) /\ trace[1].by = -1

\* C26: once a send has thrown because a named guard is missing, the
\* machine instance is not usable: no later send changes its snapshot.
C26_UnusableAfterError ==
    AfterGuardError =>
        /\ store.state = trace[1].seen
        /\ \A j \in DOMAIN trace : trace[j].snap = trace[1].seen

\* ------------------------------------------------------------------ C27
\* the callbacks that the config defines for the changed send k: exit of
\* the current state, the matched action, entry of the target
CallbacksFor(k) ==
    <<Cfg.states[trace[k].st].exit, MatchedEntry(k).action,
      Cfg.states[MatchedEntry(k).target].entry>>

\* what the callbacks of k leave for a later turn, in the order of the calls
DeferredBy(k) ==
    CallbacksFor(k)[1].later \o CallbacksFor(k)[2].later
        \o CallbacksFor(k)[3].later

IsSuffix(p, q) ==
    Len(p) <= Len(q) /\ SubSeq(q, Len(q) - Len(p) + 1, Len(q)) = p

\* the outermost send of the turn was a changed transition, none of its
\* callbacks sent before returning, and it has returned
OuterChangedAlone ==
    /\ stack = <<>>
    /\ IsSend(1)
    /\ trace[1].by = -1
    /\ ResolvesChanged(1)
    /\ HasReturned(1)
    /\ \A i \in 1..3 : CallbacksFor(1)[i].sends = <<>>

\* the send returns with the machine in its own target state and with one
\* notification of its own; what its actions deferred is still waiting
ReturnsInOwnTarget ==
    OuterChangedAlone =>
        /\ store.state = WrittenBy(1)
        /\ result = Returned(TRUE, WrittenBy(1))
        /\ store.notes = IF store.subs THEN <<WrittenBy(1)>> ELSE <<>>
        /\ IsSuffix(DeferredBy(1), timers)

\* a step in which a deferred send is called: no send is executing, and
\* the send is resolved against the state of the machine at this time
LaterSendStep ==
    Len(timers') < Len(timers) =>
        /\ phase = "ready"
        /\ stack = <<>>
        /\ turn' = "timer"
        /\ timers' = Tail(timers)
        /\ trace'[1].op = "send"
        /\ trace'[1].by = -1
        /\ trace'[1].ev = Head(timers)
        /\ trace'[1].st = store.state.value
        /\ trace'[1].seen = store.state

\* C27: a send that an action issues from a later turn, after the outer
\* send has returned, is an ordinary independent send: the outer send
\* returns with the machine in its own target state, the later send is
\* resolved against the state at that later time, and each of the two
\* changed transitions gets its own single notification.
C27_LaterSend == [] ReturnsInOwnTarget /\ [][LaterSendStep]_vars

\* a deferred send has moved the machine back, in a turn of its own, and
\* the subscriber got one notification for it
C27_Witness ==
    /\ turn = "timer"
    /\ OuterChangedAlone
    /\ store.subs
    /\ store.notes = <<store.state>>
    /\ store.state.prev = "b"
    /\ store.state.value = "a"
    /\ timers = <<>>

\* ------------------------------------------------------------------ C28
\* the traffic-light machine of the README and of the tests
IsLight == Cfg = LightCfg

\* every send of an event of this type made in state from moves the
\* machine to state to and returns changed:true
Moves(from, type, to) ==
    \A k \in DOMAIN trace :
        (IsSend(k) /\ trace[k].st = from /\ trace[k].ev.type = type) =>
            /\ trace[k].snap = Snap(to, from, Cfg.states[to].final, trace[k].ev)
            /\ \A r \in ReturnOf(k) :
                  /\ trace[r].info = "changed"
                  /\ trace[r].snap = trace[k].snap
                  /\ r = Len(trace) =>
                        /\ store.state = trace[k].snap
                        /\ result = Returned(TRUE, trace[k].snap)

\* every send made in state st leaves the machine in st and returns
\* changed:false
Stays(st, types) ==
    \A k \in DOMAIN trace :
        (IsSend(k) /\ trace[k].st = st /\ trace[k].ev.type \in types) =>
            /\ trace[k].snap = trace[k].seen
            /\ trace[k].seen.value = st
            /\ \A r \in ReturnOf(k) :
                  /\ trace[r].info = "unchanged"
                  /\ r = Len(trace) =>
                        /\ store.state = trace[k].seen
                        /\ result = Returned(FALSE, trace[k].seen)

\* the cycle green -> yellow -> red -> green: red is entered from yellow
\* only, yellow from green only, and green is re-entered from red only
LightCycle ==
    /\ Moves("green", "TIMER_END", "yellow")
    /\ Moves("yellow", "TIMER_END", "red")
    /\ Moves("red", "TIMER_END", "green")
    /\ store.created =>
          /\ store.state.value = "yellow" => store.state.prev = "green"
          /\ store.state.value = "red" => store.state.prev = "yellow"
          /\ store.state.value = "green" => store.state.prev \in {Undef, "red"}
          /\ store.state.prev = Undef => store.state.lastEvent = NoEvent

\* C28 as stated: EMERGENCY moves the machine to emergency from yellow and
\* from red
C28_Original ==
    IsLight =>
        /\ LightCycle
        /\ Moves("yellow", "EMERGENCY", "emergency")
        /\ Moves("red", "EMERGENCY", "emergency")
        /\ Stays("emergency", Cfg.events)

\* C28: in the traffic-light machine two TIMER_END sends from green leave
\* the machine in red and three leave it in green with prev = red; EMERGENCY
\* moves it to emergency when sent in yellow, the only state that declares
\* it, and leaves green and red as they are; once in emergency every event
\* leaves state = emergency and returns changed:false.
C28_TrafficLight ==
    IsLight =>
        /\ LightCycle
        /\ Moves("yellow", "EMERGENCY", "emergency")
        /\ Stays("red", {"EMERGENCY"})
        /\ Stays("green", {"EMERGENCY"})
        /\ Stays("emergency", Cfg.events)
        /\ store.created =>
              (store.state.value = "emergency" => store.state.prev = "yellow")

\* three TIMER_END sends have brought the machine back to green
C28_Witness ==
    /\ IsLight
    /\ stack = <<>>
    /\ IsSend(1)
    /\ HasReturned(1)
    /\ store.state.value = "green"
    /\ store.state.prev = "red"
    /\ store.state.lastEvent.type = "TIMER_END"
    /\ result.changed

\* ------------------------------------------------------------------ C29
\* the step calls a send that performs a changed transition
SendTransitions ==
    \E k \in DOMAIN trace' :
        /\ trace'[k].op = "send"
        /\ trace'[k].info = "changed"
        /\ k \in DOMAIN trace => stack = <<>>
        /\ trace'[k].seen = store.state
        /\ trace'[k].snap = store'.state

OnlySendWrites == ModifiesSnapshot => SendTransitions

\* C29: the snapshot of a machine instance is modified only by send
\* performing a matched transition; the handle gives callers no operation
\* that changes value, prev, done or lastEvent directly.
C29_OnlySendWrites == [][OnlySendWrites]_vars

\* ------------------------------------------------------------------ C30
\* entry of a sends NEXT with a -> b and entry of b sends NEXT with b -> a
Resends == Cfg = CycleCfg

\* a callback is about to send and the chain of nested sends is as deep
\* as the model explores
AtDepthBound ==
    /\ stack # <<>>
    /\ stack[Len(stack)].running
    /\ stack[Len(stack)].script # <<>>
    /\ Len(stack) >= MaxDepth

\* the frames of the stack are sends nested in each other
Chain ==
    \A i \in 2..Len(stack) : stack[i].by = stack[i - 1].id

\* in the config that re-sends along a cycle no send returns and the
\* chain of nested sends only grows
NeverReturns ==
    Resends =>
        /\ \A k \in DOMAIN trace : IsSend(k) => ~HasReturned(k)
        /\ IsSend(1) =>
              /\ result.kind # "returned"
              /\ stack # <<>>
              /\ Chain
              /\ Len(stack) < MaxDepth => ~AtDepthBound

\* in the other configs no cascade is cut by the depth explored
CascadesFit == ~Resends => ~AtDepthBound

\* C30: the engine has no depth or cycle guard for reentrant sends: in a
\* config whose entry actions re-send an event along a cycle of changed
\* transitions, one outer send produces a chain of nested sends that grows
\* past every depth and the outer send never returns; in a config in which
\* no cascade revisits such a cycle, every send returns.
C30_NoCycleGuard ==
    /\ [] NeverReturns
    /\ [] CascadesFit
    /\ (~Resends /\ stack # <<>>) ~> (stack = <<>>)

\* one outer send has produced a chain of nested sends as deep as the
\* model explores, and the next one is about to be called
C30_Witness ==
    /\ Resends
    /\ AtDepthBound
    /\ Chain
    /\ Len(stack) = MaxDepth
    /\ Cardinality({k \in DOMAIN trace : IsSend(k)}) = MaxDepth

\* ------------------------------------------------------------------ C31
\* C31: in every reachable state in which snapshot.prev is defined it
\* differs from snapshot.value, whatever outer and nested sends were made.
C31_PrevDiffers ==
    (store.created /\ store.state.prev # Undef) =>
        store.state.prev # store.state.value

\* a nested send has written the snapshot inside a callback of an outer
\* changed send
C31_Witness ==
    /\ store.created
    /\ store.state.prev # Undef
    /\ \E k, j \in DOMAIN trace :
          /\ ResolvesChanged(k)
          /\ ResolvesChanged(j)
          /\ trace[j].by = k
          /\ store.state = WrittenBy(j)

\* ------------------------------------------------------------------ C32
\* the invocations of the entry and of the exit action of state s, in order
HooksOf(s) ==
    SelectSeq(trace,
              LAMBDA e : \/ e.op = "entry" /\ e.cb = Cfg.states[s].entry.name
                         \/ e.op = "exit" /\ e.cb = Cfg.states[s].exit.name)

\* the state in which the machine is when the turn begins; none at
\* construction
TurnStart == IF IsSend(1) THEN trace[1].st ELSE Undef

\* entry(s) and exit(s) alternate, and the first of the turn is exit(s)
\* only for the state that the machine was in when the turn began
Alternate(s) ==
    LET q == HooksOf(s)
    IN  /\ \A i \in 1..(Len(q) - 1) : q[i].op # q[i + 1].op
        /\ q # <<>> => q[1].op = IF s = TurnStart THEN "exit" ELSE "entry"

\* the state whose entry action was invoked last is the current state
LastEntryIsCurrent ==
    LET E == {j \in DOMAIN trace : trace[j].op = "entry"}
    IN  /\ E # {}
        /\ trace[Max(E)].cb = Cfg.states[store.state.value].entry.name

\* every state of the config defines an entry action
EveryEntry ==
    /\ ~IllFormed
    /\ \A s \in DOMAIN Cfg.states : Cfg.states[s].entry.defined

\* an outermost send that performed a changed transition has returned
OuterChangedReturned ==
    /\ stack = <<>>
    /\ IsSend(1)
    /\ trace[1].by = -1
    /\ ResolvesChanged(1)
    /\ HasReturned(1)

WellNested ==
    /\ OuterChangedReturned => LastEntryIsCurrent
    /\ \A s \in DOMAIN Cfg.states :
          (Cfg.states[s].entry.defined /\ Cfg.states[s].exit.defined)
              => Alternate(s)

\* no exit action and no transition action of the config calls send
OnlyEntriesSend ==
    /\ \A s \in DOMAIN Cfg.states :
          /\ Cfg.states[s].exit.sends = <<>>
          /\ \A e \in EventTypes :
                \A i \in 1..Len(Cfg.states[s].on[e].entries) :
                    Cfg.states[s].on[e].entries[i].action.sends = <<>>
    /\ \A e \in EventTypes :
          \A i \in 1..Len(Cfg.on[e].entries) :
              Cfg.on[e].entries[i].action.sends = <<>>

\* C32 as stated: also when exit or transition actions call send
C32_Original == EveryEntry => WellNested

\* C32: when an outermost send that performed a changed transition
\* returns, the state whose entry action was invoked most recently is the
\* current state, and for every state s the invocations of entry(s) and
\* exit(s) alternate, exit(s) never before the entry(s) of the same visit;
\* this holds when entry actions call send reentrantly, and no exit or
\* transition action does.
C32_EntryExitNesting == (EveryEntry /\ OnlyEntriesSend) => WellNested

\* a send nested in an entry action has left the state just entered: its
\* entry and then its exit were invoked, and the entry invoked last is
\* that of the current state
C32_Witness ==
    /\ EveryEntry
    /\ OnlyEntriesSend
    /\ OuterChangedReturned
    /\ \E j \in DOMAIN trace : ResolvesChanged(j) /\ trace[j].by = 1
    /\ \E s \in DOMAIN Cfg.states :
          /\ s # TurnStart
          /\ Len(HooksOf(s)) = 2
          /\ Cfg.states[s].exit.defined
    /\ LastEntryIsCurrent

\* ------------------------------------------------------------------ C33
\* the j-th entry of the trace is a call of an inline guard function
InlineGuardCall(j) == trace[j].op = "guard" /\ trace[j].cb \in Flags

\* C33: an inline guard function is called before any snapshot mutation of
\* its send, with event = the event sent and with current and prev both
\* equal to the state in which the machine is when send is called.
C33_InlineGuardArgs ==
    \A j \in DOMAIN trace :
        InlineGuardCall(j) =>
            LET k == trace[j].id
            IN  /\ IsSend(k)
                /\ trace[j].ev = trace[k].ev
                /\ trace[j].st = trace[k].seen.value
                /\ trace[j].prev = trace[k].seen.value
                /\ trace[j].seen = trace[k].seen

\* an inline guard was called with a payload, in a state whose snapshot
\* has another prev, by a send that then changed the snapshot
C33_Witness ==
    \E j \in DOMAIN trace :
        /\ InlineGuardCall(j)
        /\ trace[j].ev.payload > 0
        /\ trace[j].seen.prev # Undef
        /\ trace[j].seen.prev # trace[j].prev
        /\ trace[trace[j].id].snap # trace[j].seen

\* ------------------------------------------------------------------ C34
\* the entries of t that the declared order makes send consider: those
\* with no selected entry and no missing guard before them
Considered(t) ==
    {i \in 1..Len(t.entries) :
        \A j \in 1..(i - 1) :
            ~Holds(t.entries[j].guard) /\ ~IsAbsent(t.entries[j].guard)}

\* the guards of the considered entries, in declared order
ConsideredGuards(t) ==
    LET q == SelectSeq(SubSeq(t.entries, 1, Cardinality(Considered(t))),
                       LAMBDA e : e.guard.kind # "none" /\ ~IsAbsent(e.guard))
    IN  [j \in 1..Len(q) |-> q[j].guard.name]

\* the guards that send k evaluated, in the order of their evaluation
EvaluatedBy(k) ==
    LET q == SelectSeq(GuardsOf(k), LAMBDA e : e.info # "absent")
    IN  [j \in 1..Len(q) |-> q[j].cb]

\* C34: during one send the guards of the declared transition are evaluated
\* in declared order, one evaluation per guarded entry, and none that is
\* placed after the first selected entry; a send in a final state or for an
\* event with no transition evaluates no guard.
C34_GuardOrder ==
    \A k \in DOMAIN trace :
        IsSend(k) =>
            EvaluatedBy(k) =
                IF Cfg.states[trace[k].st].final THEN <<>>
                ELSE ConsideredGuards(Declared(trace[k].st, trace[k].ev.type))

\* a send over a list selected the first entry and returned with one guard
\* evaluated, a guarded entry being left unevaluated behind it
C34_Witness ==
    \E k \in DOMAIN trace :
        /\ ListSend(k)
        /\ HasReturned(k)
        /\ LET t == Declared(trace[k].st, trace[k].ev.type)
           IN  /\ Selected(t) = {1}
               /\ Len(t.entries) >= 2
               /\ t.entries[2].guard.kind # "none"
               /\ t.entries[2].guard.name # t.entries[1].guard.name
               /\ Len(EvaluatedBy(k)) = 1

\* a send over a list evaluated two guards, the first being false
C34_WitnessSecond ==
    \E k \in DOMAIN trace :
        /\ ListSend(k)
        /\ Len(EvaluatedBy(k)) = 2
        /\ GuardsOf(k)[1].info = "false"

\* ------------------------------------------------------------------ C35
\* send k is rejected by the guards of its transition: none of them holds
GuardRejected(k) ==
    /\ IsSend(k)
    /\ ~Cfg.states[trace[k].st].final
    /\ LET t == Declared(trace[k].st, trace[k].ev.type)
       IN  /\ t.form # "none"
           /\ ~ReachesAbsent(t)
           /\ Selected(t) = {}

\* C35: handleInvalidTransition is invoked by a send exactly when the
\* current state is final or neither the state nor the global table
\* declares a transition for the event, and then once; a send that resolves
\* to a self-transition, that its guards reject or that performs a changed
\* transition never invokes it.
C35_InvalidExactly ==
    \A k \in DOMAIN trace :
        IsSend(k) =>
            /\ Len(InvalidOf(k)) =
                  IF Cfg.handler /\ (InFinal(k) \/ NoTransition(k)) THEN 1 ELSE 0
            /\ (ResolvesSelf(k) \/ GuardRejected(k) \/ ResolvesChanged(k))
                  => InvalidOf(k) = <<>>

\* a machine with handleInvalidTransition has returned from a send that
\* resolved to its own state without a guard, reporting nothing
C35_Witness ==
    /\ Cfg.handler
    /\ \E k \in DOMAIN trace :
          /\ ResolvesSelf(k)
          /\ GuardsOf(k) = <<>>
          /\ HasReturned(k)

\* a send with no transition, made by an action, has been reported once
C35_WitnessReported ==
    /\ Cfg.handler
    /\ \E k \in DOMAIN trace :
          /\ NoTransition(k)
          /\ trace[k].by >= 0
          /\ Len(InvalidOf(k)) = 1

\* a machine with handleInvalidTransition had a send rejected by a list of
\* guards
C35_WitnessRejected ==
    /\ Cfg.handler
    /\ \E k \in DOMAIN trace :
          /\ GuardRejected(k)
          /\ HasReturned(k)
          /\ Declared(trace[k].st, trace[k].ev.type).form = "list"

\* ------------------------------------------------------------------ C36
\* send k, made in a non-final state, resolves to a target that is not a
\* key of states
UnknownTarget(k) ==
    /\ IsSend(k)
    /\ ~Cfg.states[trace[k].st].final
    /\ LET t == Declared(trace[k].st, trace[k].ev.type)
       IN  /\ ~ReachesAbsent(t)
           /\ \E i \in Selected(t) : t.entries[i].target \notin ownKeys(Cfg)

\* send k threw with the snapshot as it was at the call, having written
\* nothing and run no callback
ThrewUntouched(k) ==
    /\ NonGuardOps(k) = <<"send", "throw">>
    /\ \A j \in DOMAIN trace :
          trace[j].id = k => trace[j].seen = trace[k].seen
    /\ \A j \in DOMAIN trace :
          (trace[j].id = k /\ trace[j].op = "throw" /\ j = Len(trace))
              => store.state = trace[k].seen

\* C36: a send that resolves to a target that is not a key of states throws
\* before the snapshot is modified and before any exit, transition or entry
\* action runs: the snapshot after the failed send is the one before it.
C36_UnknownTargetThrows ==
    \A k \in DOMAIN trace : UnknownTarget(k) => ThrewUntouched(k)

\* a send to a target that is not a key of states has returned changed:true
\* with the target as the value of the snapshot
C36_PhantomState ==
    \E k \in DOMAIN trace :
        /\ UnknownTarget(k)
        /\ \E r \in ReturnOf(k) : trace[r].info = "changed"
        /\ store.state.value \notin ownKeys(Cfg)
        /\ stack = <<>>

\* ------------------------------------------------------------------ C37
\* C37: when the reachability check is enabled and fails, createFSM throws
\* before the store is created and before the initial state's entry action
\* is invoked: no callback of the config has run or been scheduled.
C37_CheckBeforeEntry ==
    ThrewUnreachable =>
        /\ CheckEnabled
        /\ ~store.created
        /\ trace = <<>>
        /\ stack = <<>>
        /\ timers = <<>>

\* the check has failed for a config whose initial state has an entry
\* action
C37_Witness ==
    /\ ThrewUnreachable
    /\ Cfg.initial \in DOMAIN Cfg.states
    /\ Cfg.states[Cfg.initial].entry.defined

\* ------------------------------------------------------------------ C38
\* both instances have received the same calls and none is executing
InStep == twin.mode = "followed" /\ stack = <<>>

\* the program has turned to the other instance and not called it yet
Resumed == twin.mode = "replay"

====
